---- MODULE Spec2Model ----
(***************************************************************************)
(* Model of the `buffers` crate: the Buffer contract as implemented by     *)
(* InlineBuffer, SliceBuffer, HeapBuffer, AllocatorBuffer and SvoBuffer,   *)
(* and the grow-target composites (ExponentGrowthBuffer, AtLeastBuffer)    *)
(* over a GrowMockBuffer.                                                  *)
(*                                                                         *)
(* Slot indices are 0-based as in the source.  A slot holds Empty (its     *)
(* bytes are garbage) or an element 1..MaxVal.  Elements are instrumented  *)
(* like LifeCounter: constructing one increments `counter`, running its    *)
(* destructor decrements it.                                               *)
(***************************************************************************)
EXTENDS Integers, Sequences, FiniteSets, TLC

\* ------------------------------------------------------------------ bounds
\* Largest compile-time SIZE / SMALL_SIZE / slice length explored.
MaxSize == 2
\* Element payloads are 1..MaxVal.
MaxVal == 2
\* Largest element count for which Layout::array::<T>(n) succeeds
\* (stands for isize::MAX / size_of::<T>()).
LayoutMax == 3
\* Number of blocks the allocator can hand out before it reports failure.
MaxAllocs == 3
\* Largest target given to the grow-target composites.
MaxGrowTarget == 40
\* Largest MIN_SIZE of an AtLeastBuffer explored.
MaxMinSize == 14
\* Width of usize in bits.
UsizeBits == 16
\* Most values taken out of a ZstBuffer in one run.
MaxTakes == 2
\* SIZE of the InlineBuffer whose slots are shifted and sliced.
ShiftSize == 3
\* Number of columns of the ArrayBuffer (its const SIZE).
ArrayCols == 2

\* Resize targets offered to try_grow / try_shrink: one past LayoutMax so the
\* layout error is reachable.
MaxTarget == LayoutMax + 1

\* ------------------------------------------------------------- vocabulary
Empty == 0
None == 0
Values == 1..MaxVal

\* NonNull::dangling(): a pointer that is no block of the allocator.
Dangling == -1
\* Null pointer returned by a failed std::alloc::alloc / realloc.
Null == 0

Ok == "Ok"
OutOfMemory == "OutOfMemory"
TheoreticalLimitSurpassed == "TheoreticalLimitSurpassed"
UnsupportedOperation == "UnsupportedOperation"
UndistinguishableError == "UndistinguishableError"
\* Not a ResizeError: the call unwound with a panic.
Panic == "Panic"

\* std::cmp::max.
Max(a, b) == IF a >= b THEN a ELSE b

\* An array of n empty (uninitialised) slots: MaybeUninit::uninit_array().
EmptyCells(n) == [k \in 0..(n - 1) |-> Empty]

\* -------------------------------------------------------------- allocator
\* The allocator's blocks: id -> [status, cells]; `ub` records that a block
\* was released or accessed while not live (double free / use after free).
BlockIds == 1..MaxAllocs
NoBlock == [status |-> "unused", cells |-> EmptyCells(0)]
FreedBlock == [status |-> "freed", cells |-> EmptyCells(0)]
HeapInit == [blocks |-> [id \in BlockIds |-> NoBlock], ub |-> FALSE]

IsLive(hp, p) == p \in BlockIds /\ hp.blocks[p].status = "live"

\* Lowest unused block id, Null when the allocator is exhausted.
FreshId(hp) ==
    IF \E id \in BlockIds : hp.blocks[id].status = "unused"
    THEN CHOOSE id \in BlockIds :
            /\ hp.blocks[id].status = "unused"
            /\ \A j \in BlockIds : hp.blocks[j].status = "unused" => id <= j
    ELSE Null

AllocAt(hp, id, n, ok) ==
    IF ok /\ id # Null
    THEN [hp |-> [hp EXCEPT !.blocks[id] =
                        [status |-> "live", cells |-> EmptyCells(n)]],
          ptr |-> id]
    ELSE [hp |-> hp, ptr |-> Null]

\* std::alloc::alloc / Allocator::allocate of n slots.  `ok` is the
\* allocator's answer; it also fails when no block is left.
Alloc(hp, n, ok) == AllocAt(hp, FreshId(hp), n, ok)

\* The first min(old, new) slots of a block, carried over to n slots.
CarryOver(oc, n) == [k \in 0..(n - 1) |-> IF k \in DOMAIN oc THEN oc[k] ELSE Empty]

ReallocAt(hp, old, id, n, ok) ==
    IF ~IsLive(hp, old) THEN [hp |-> [hp EXCEPT !.ub = TRUE], ptr |-> Null]
    ELSE IF ok /\ id # Null
    THEN [hp |-> [hp EXCEPT !.blocks[old] = FreedBlock,
                            !.blocks[id] = [status |-> "live",
                                            cells |-> CarryOver(hp.blocks[old].cells, n)]],
          ptr |-> id]
    ELSE [hp |-> hp, ptr |-> Null]

\* std::alloc::realloc / Allocator::grow / Allocator::shrink: on success the
\* old block is consumed and the first min(old, new) slots are carried over;
\* on failure the old block is untouched.
Realloc(hp, old, n, ok) == ReallocAt(hp, old, FreshId(hp), n, ok)

\* std::alloc::dealloc / Allocator::deallocate.
Dealloc(hp, p) ==
    IF IsLive(hp, p)
    THEN [hp EXCEPT !.blocks[p] = FreedBlock]
    ELSE [hp EXCEPT !.ub = TRUE]

\* Layout::array::<T>(n): Err(LayoutError) when the byte size overflows.
LayoutArrayOk(n) == n <= LayoutMax

\* ---------------------------------------------------------- LifeCounter
\* LifeCounter::new: counter.fetch_add(1).
LifeCounter_new(c) == c + 1
\* impl Drop for LifeCounter: counter.fetch_sub(1).
LifeCounter_drop(c) == c - 1
\* Variant: the slot is forgotten without running the destructor.
drop_in_place_forget(cell, c) == c
\* ptr::drop_in_place on a slot: runs the destructor of the element in it.
drop_in_place(cell, c) == IF cell # Empty THEN LifeCounter_drop(c) ELSE c

\* What releasing the memory of slots does to their elements: the drop glue
\* of [MaybeUninit<T>; SIZE] and std::alloc::dealloc free the bytes and run
\* no destructor.  Yields the counter.
\* Variant: the destructor of every filled slot is run.
release_slots_dropping(cells, c) ==
    c - Cardinality({k \in DOMAIN cells : cells[k] # Empty})
release_slots(cells, c) == c

\* --------------------------------------------- InlineBuffer / SliceBuffer
Inline_new(n) == EmptyCells(n)
Inline_capacity(n) == n
\* ptr.read(): the value moves out, the slot is empty afterwards.
Inline_read_value(arr, i) ==
    [array |-> [arr EXCEPT ![i] = Empty], val |-> arr[i]]
\* Variant: the index is ignored and the value lands in slot 0.
Inline_write_value_first(arr, i, v) ==
    IF 0 \in DOMAIN arr THEN [arr EXCEPT ![0] = v] ELSE arr
Inline_write_value(arr, i, v) == [arr EXCEPT ![i] = v]
Inline_manually_drop(arr, i, c) ==
    [array |-> [arr EXCEPT ![i] = Empty], counter |-> drop_in_place(arr[i], c)]
Inline_try_grow(target) == UnsupportedOperation
\* Variant: shrinking a fixed-size buffer reports success.
Inline_try_shrink_ok(target) == Ok
Inline_try_shrink(target) == UnsupportedOperation

\* ------------------------------------------- slots of an allocated block
BlockHas(hp, p, i) == IsLive(hp, p) /\ i \in DOMAIN hp.blocks[p].cells
BlockGet(hp, p, i) == IF BlockHas(hp, p, i) THEN hp.blocks[p].cells[i] ELSE Empty
BlockSet(hp, p, i, v) ==
    IF BlockHas(hp, p, i)
    THEN [hp EXCEPT !.blocks[p].cells[i] = v]
    ELSE [hp EXCEPT !.ub = TRUE]

\* A failed step of a resize: nothing allocated, the error to return.
Failed(hp, err) == [hp |-> hp, ptr |-> Null, res |-> err, call |-> "none"]
\* The answer of the allocator `a` as a Result: a null pointer is `err`.
Answer(a, err, call) ==
    [hp |-> a.hp, ptr |-> a.ptr, res |-> IF a.ptr = Null THEN err ELSE Ok,
     call |-> call]

\* -------------------------------------------------------------- HeapBuffer
Heap_new == [ptr |-> Dangling, cap |-> 0]
Heap_capacity(b) == b.cap
\* Variant: the pointer is stored but the capacity is not.
Heap_update_buffer_keep_cap(b, ptr, cap) == [ptr |-> ptr, cap |-> b.cap]
Heap_update_buffer(b, ptr, cap) == [ptr |-> ptr, cap |-> cap]

try_array_alloc(hp, n, ok) ==
    IF ~LayoutArrayOk(n)
    THEN Failed(hp, TheoreticalLimitSurpassed)
    ELSE Answer(Alloc(hp, n, ok), OutOfMemory, "alloc")

try_array_realloc(hp, old_ptr, old_size, new_size, ok) ==
    IF ~LayoutArrayOk(old_size) \/ ~LayoutArrayOk(new_size)
    THEN Failed(hp, TheoreticalLimitSurpassed)
    ELSE Answer(Realloc(hp, old_ptr, new_size, ok), OutOfMemory, "realloc")

\* On success the caller stores NonNull::dangling().
deallocate(hp, ptr, n) ==
    IF ~LayoutArrayOk(n)
    THEN Failed(hp, TheoreticalLimitSurpassed)
    ELSE [hp |-> Dealloc(hp, ptr), ptr |-> Dangling, res |-> Ok, call |-> "dealloc"]

\* Variant: the fields are updated whatever the step answered.
Heap_then_update_always(b, r, cap) ==
    [b |-> Heap_update_buffer(b, r.ptr, cap), hp |-> r.hp,
     res |-> r.res, call |-> r.call]
\* `let ptr = step?; self.update_buffer(ptr, cap); Ok(())`: an error of the
\* step returns early and leaves the fields as they were.
Heap_then_update(b, r, cap) ==
    IF r.res # Ok
    THEN [b |-> b, hp |-> r.hp, res |-> r.res, call |-> r.call]
    ELSE [b |-> Heap_update_buffer(b, r.ptr, cap), hp |-> r.hp,
          res |-> Ok, call |-> r.call]

Heap_allocate_array(b, hp, target, ok) ==
    Heap_then_update(b, try_array_alloc(hp, target, ok), target)

Heap_resize_array(b, hp, target, ok) ==
    Heap_then_update(b, try_array_realloc(hp, b.ptr, b.cap, target, ok), target)

\* Variant: the block is released but the fields keep pointing at it.
Heap_deallocate_array_stale(b, hp) ==
    [b |-> b, hp |-> deallocate(hp, b.ptr, b.cap).hp, res |-> Ok, call |-> "dealloc"]
Heap_deallocate_array(b, hp) ==
    Heap_then_update(b, deallocate(hp, b.ptr, b.cap), 0)

Heap_try_grow(b, hp, target, ok) ==
    IF b.cap = 0
    THEN Heap_allocate_array(b, hp, target, ok)
    ELSE Heap_resize_array(b, hp, target, ok)

\* Variant: shrinking to zero reallocates instead of deallocating.
Heap_try_shrink_always_resize(b, hp, target, ok) ==
    Heap_resize_array(b, hp, target, ok)
Heap_try_shrink(b, hp, target, ok) ==
    IF target = 0
    THEN Heap_deallocate_array(b, hp)
    ELSE Heap_resize_array(b, hp, target, ok)

\* What a destructor leaves behind: the result of the release is ignored.
Dropped(r) == [b |-> r.b, hp |-> r.hp, call |-> r.call]
NotReleased(b, hp) == [b |-> b, hp |-> hp, call |-> "none"]

\* impl Drop for HeapBuffer.
Heap_drop(b, hp) ==
    IF b.cap # 0
    THEN Dropped(Heap_deallocate_array(b, hp))
    ELSE NotReleased(b, hp)

\* --------------------------------------------------------- AllocatorBuffer
Allocator_with_allocator == [ptr |-> Dangling, cap |-> 0]
Allocator_update_buffer(b, ptr, cap) == [ptr |-> ptr, cap |-> cap]

try_allocate(hp, n, ok) ==
    IF ~LayoutArrayOk(n)
    THEN Failed(hp, TheoreticalLimitSurpassed)
    ELSE Answer(Alloc(hp, n, ok), UndistinguishableError, "alloc")

try_grow(hp, old_ptr, old_size, new_size, ok) ==
    IF ~LayoutArrayOk(old_size) \/ ~LayoutArrayOk(new_size)
    THEN Failed(hp, TheoreticalLimitSurpassed)
    ELSE Answer(Realloc(hp, old_ptr, new_size, ok), UndistinguishableError, "realloc")

try_shrink(hp, old_ptr, old_size, new_size, ok) ==
    IF ~LayoutArrayOk(old_size) \/ ~LayoutArrayOk(new_size)
    THEN Failed(hp, TheoreticalLimitSurpassed)
    ELSE Answer(Realloc(hp, old_ptr, new_size, ok), UndistinguishableError, "realloc")

\* On success the caller stores NonNull::dangling().
try_deallocate(hp, old_ptr, old_size) ==
    IF ~LayoutArrayOk(old_size)
    THEN Failed(hp, TheoreticalLimitSurpassed)
    ELSE [hp |-> Dealloc(hp, old_ptr), ptr |-> Dangling, res |-> Ok,
          call |-> "dealloc"]

\* `let ptr = step?; self.update_buffer(ptr, cap); Ok(())`.
Allocator_then_update(b, r, cap) ==
    IF r.res # Ok
    THEN [b |-> b, hp |-> r.hp, res |-> r.res, call |-> r.call]
    ELSE [b |-> Allocator_update_buffer(b, r.ptr, cap), hp |-> r.hp,
          res |-> Ok, call |-> r.call]

Allocator_try_grow(b, hp, target, ok) ==
    Allocator_then_update(b,
        IF b.cap > 0
        THEN try_grow(hp, b.ptr, b.cap, target, ok)
        ELSE try_allocate(hp, target, ok),
        target)

\* Variant: shrinking is acknowledged and nothing is done.
Allocator_try_shrink_noop(b, hp, target, ok) ==
    [b |-> b, hp |-> hp, res |-> Ok, call |-> "none"]
Allocator_try_shrink(b, hp, target, ok) ==
    IF target = 0
    THEN Allocator_then_update(b, try_deallocate(hp, b.ptr, b.cap), 0)
    ELSE Allocator_then_update(b, try_shrink(hp, b.ptr, b.cap, target, ok), target)

\* impl Drop for AllocatorBuffer: the fields are not reset, the value is gone.
Allocator_drop(b, hp) ==
    IF b.cap # 0
    THEN [b |-> b, hp |-> try_deallocate(hp, b.ptr, b.cap).hp, call |-> "dealloc"]
    ELSE NotReleased(b, hp)

\* ----------------------------------- the heap-allocated buffers, by kind
IsAllocatorKind(k) == k \in {"allocator", "svo_allocator"}

Big_default(k) == IF IsAllocatorKind(k) THEN Allocator_with_allocator ELSE Heap_new
Big_try_grow(k, b, hp, target, ok) ==
    IF IsAllocatorKind(k)
    THEN Allocator_try_grow(b, hp, target, ok)
    ELSE Heap_try_grow(b, hp, target, ok)
Big_try_shrink(k, b, hp, target, ok) ==
    IF IsAllocatorKind(k)
    THEN Allocator_try_shrink(b, hp, target, ok)
    ELSE Heap_try_shrink(b, hp, target, ok)
Big_drop(k, b, hp) ==
    IF IsAllocatorKind(k) THEN Allocator_drop(b, hp) ELSE Heap_drop(b, hp)

\* read / write_value / manually_drop of HeapBuffer and AllocatorBuffer:
\* ptr::read, ptr::write and ptr::drop_in_place at buffer_start.add(index).
Big_read_value(b, hp, i) ==
    [hp |-> BlockSet(hp, b.ptr, i, Empty), val |-> BlockGet(hp, b.ptr, i)]
Big_write_value(b, hp, i, v) == BlockSet(hp, b.ptr, i, v)
Big_manually_drop(b, hp, i, c) ==
    [hp |-> BlockSet(hp, b.ptr, i, Empty),
     counter |-> drop_in_place(BlockGet(hp, b.ptr, i), c)]

\* ------------------------------------------------ EitherBuffer / SvoBuffer
IsInlineKind(k) == k \in {"inline", "slice"}
IsHeapKind(k) == k \in {"heap", "allocator"}
IsSvoKind(k) == k \in {"svo_heap", "svo_allocator"}

\* impl Default for EitherBuffer: Self::First(Default::default()).
Either_default == "First"

\* The state of a buffer after a resize call, with the call's result.
Resized(inr, arr, b, hp, res, call, via) ==
    [inner |-> inr, array |-> arr, big |-> b, hp |-> hp, res |-> res,
     call |-> call, via |-> via]
\* A resize call forwarded to the heap-allocated buffer, whose result is r.
Forwarded(inr, arr, r, via) == Resized(inr, arr, r.b, r.hp, r.res, r.call, via)

\* Variant: one slot too few is copied.
copy_nonoverlapping_short(arr, hp, dst, n) ==
    IF IsLive(hp, dst) /\ \A k \in 0..(n - 1) : k \in DOMAIN hp.blocks[dst].cells
    THEN [hp EXCEPT !.blocks[dst].cells =
            [k \in DOMAIN @ |-> IF k < n - 1 THEN arr[k] ELSE @[k]]]
    ELSE [hp EXCEPT !.ub = TRUE]
\* copy_nonoverlapping(src, dst, n): the first n slots of the inline array
\* are copied bitwise into the block at dst.
copy_nonoverlapping(arr, hp, dst, n) ==
    IF IsLive(hp, dst) /\ \A k \in 0..(n - 1) : k \in DOMAIN hp.blocks[dst].cells
    THEN [hp EXCEPT !.blocks[dst].cells =
            [k \in DOMAIN @ |-> IF k < n THEN arr[k] ELSE @[k]]]
    ELSE [hp EXCEPT !.ub = TRUE]

\* Variant: the buffer switches to the big buffer whatever try_grow answered.
Svo_move_after_grow_commit(k, n, arr, g) ==
    Resized("Second", EmptyCells(0), g.b, g.hp, g.res, g.call, "move_into_big")
\* SvoBuffer::move_into_big after `new_buf.try_grow(target)` answered g.
\* new_buf is a local: on an early exit (error, panic) it is dropped.
Svo_move_after_grow(k, n, arr, g) ==
    IF g.res # Ok
    THEN Resized("First", arr, Big_default(k), Big_drop(k, g.b, g.hp).hp,
                 g.res, g.call, "move_into_big")
    ELSE IF ~(0 < n)
    \* current_buf.ptr(0) indexes array[0] of a zero-length array.
    THEN Resized("First", arr, Big_default(k), Big_drop(k, g.b, g.hp).hp,
                 Panic, g.call, "move_into_big")
    ELSE Resized("Second", EmptyCells(0), g.b,
                 copy_nonoverlapping(arr, g.hp, g.b.ptr, n),
                 Ok, g.call, "move_into_big")

\* SvoBuffer::move_into_big, called while inner is First.
Svo_move_into_big(k, n, arr, hp, target, ok) ==
    Svo_move_after_grow(k, n, arr,
        IF Big_default(k).cap < target
        THEN Big_try_grow(k, Big_default(k), hp, target, ok)
        ELSE [b |-> Big_default(k), hp |-> hp, res |-> Ok, call |-> "none"])

Svo_try_grow(k, inr, n, arr, b, hp, target, ok) ==
    IF inr = "First"
    THEN Svo_move_into_big(k, n, arr, hp, target, ok)
    ELSE Forwarded(inr, arr, Big_try_grow(k, b, hp, target, ok), "second")

\* Variant: a promoted buffer asked to shrink to the inline size or below
\* moves its slots back into a fresh inline array and releases the block.
Svo_try_shrink_demote(k, inr, n, arr, b, hp, target, ok) ==
    IF inr = "First"
    THEN Resized(inr, arr, b, hp, Ok, "none", "first")
    ELSE IF target <= n
    THEN Resized("First", [i \in 0..(n - 1) |-> BlockGet(hp, b.ptr, i)],
                 Big_default(k), Big_drop(k, b, hp).hp, Ok, "dealloc", "second")
    ELSE Forwarded(inr, arr, Big_try_shrink(k, b, hp, target, ok), "second")
Svo_try_shrink(k, inr, n, arr, b, hp, target, ok) ==
    IF inr = "First"
    THEN Resized(inr, arr, b, hp, Ok, "none", "first")
    ELSE Forwarded(inr, arr, Big_try_shrink(k, b, hp, target, ok), "second")

\* Drop glue of SvoBuffer: drops the active variant of the EitherBuffer.
Svo_drop(k, inr, b, hp) ==
    IF inr = "Second" THEN Big_drop(k, b, hp) ELSE NotReleased(b, hp)

\* ------------------------------------------------- Buffer, by implementation
Buffer_try_grow(k, inr, n, arr, b, hp, target, ok) ==
    IF IsInlineKind(k)
    THEN Resized(inr, arr, b, hp, Inline_try_grow(target), "none", "direct")
    ELSE IF IsHeapKind(k)
    THEN Forwarded(inr, arr, Big_try_grow(k, b, hp, target, ok), "direct")
    ELSE Svo_try_grow(k, inr, n, arr, b, hp, target, ok)

Buffer_try_shrink(k, inr, n, arr, b, hp, target, ok) ==
    IF IsInlineKind(k)
    THEN Resized(inr, arr, b, hp, Inline_try_shrink(target), "none", "direct")
    ELSE IF IsHeapKind(k)
    THEN Forwarded(inr, arr, Big_try_shrink(k, b, hp, target, ok), "direct")
    ELSE Svo_try_shrink(k, inr, n, arr, b, hp, target, ok)

Buffer_drop(k, inr, b, hp) ==
    IF IsInlineKind(k) THEN NotReleased(b, hp)
    ELSE IF IsHeapKind(k) THEN Big_drop(k, b, hp)
    ELSE Svo_drop(k, inr, b, hp)

\* The active storage of buffer kind k is the inline array.
InArray(k, inr) == IsInlineKind(k) \/ (IsSvoKind(k) /\ inr = "First")
\* What a single-slot call leaves: the inline array, the allocator's blocks,
\* the value returned (read_value) and the counter (manually_drop).
SlotCall(arr, hp, val, c) == [array |-> arr, hp |-> hp, val |-> val, counter |-> c]
Buffer_capacity(k, inr, n, b) ==
    IF InArray(k, inr) THEN Inline_capacity(n) ELSE Heap_capacity(b)
Buffer_read_value(k, inr, arr, b, hp, i, c) ==
    IF InArray(k, inr)
    THEN SlotCall(Inline_read_value(arr, i).array, hp, Inline_read_value(arr, i).val, c)
    ELSE SlotCall(arr, Big_read_value(b, hp, i).hp, Big_read_value(b, hp, i).val, c)
Buffer_write_value(k, inr, arr, b, hp, i, v, c) ==
    IF InArray(k, inr)
    THEN SlotCall(Inline_write_value(arr, i, v), hp, None, c)
    ELSE SlotCall(arr, Big_write_value(b, hp, i, v), None, c)
Buffer_manually_drop(k, inr, arr, b, hp, i, c) ==
    IF InArray(k, inr)
    THEN SlotCall(Inline_manually_drop(arr, i, c).array, hp, None,
                  Inline_manually_drop(arr, i, c).counter)
    ELSE SlotCall(arr, Big_manually_drop(b, hp, i, c).hp, None,
                  Big_manually_drop(b, hp, i, c).counter)

\* ---------------------------------------------------------- IndirectBuffer
\* A Box<B> or &mut B: inner() and inner_mut() are deref() and deref_mut(),
\* and every operation of Buffer is the default of IndirectBuffer, which calls
\* the same operation of the inner buffer with the arguments it was given.
Indirect_capacity(k, inr, n, b) == Buffer_capacity(k, inr, n, b)
\* Variant: the value is read but the slot is treated as still filled.
Indirect_read_value_copy(k, inr, arr, b, hp, i, c) ==
    SlotCall(arr, hp, Buffer_read_value(k, inr, arr, b, hp, i, c).val, c)
Indirect_read_value(k, inr, arr, b, hp, i, c) ==
    Buffer_read_value(k, inr, arr, b, hp, i, c)
Indirect_write_value(k, inr, arr, b, hp, i, v, c) ==
    Buffer_write_value(k, inr, arr, b, hp, i, v, c)
Indirect_manually_drop(k, inr, arr, b, hp, i, c) ==
    Buffer_manually_drop(k, inr, arr, b, hp, i, c)
Indirect_try_grow(k, inr, n, arr, b, hp, target, ok) ==
    Buffer_try_grow(k, inr, n, arr, b, hp, target, ok)

\* ------------------------------------- composites over the grow target
\* usize::next_power_of_two: doubles from 1 until the value is reached, so
\* 0 and 1 give 1.
RECURSIVE DoubleUntil(_, _)
DoubleUntil(n, p) == IF p >= n THEN p ELSE DoubleUntil(n, 2 * p)
next_power_of_two(n) == DoubleUntil(n, 1)

\* ExponentGrowthBuffer::try_grow: the target handed to the inner buffer.
ExponentGrowth_new_target(target) == next_power_of_two(target - 1)

\* Variant: the target is clamped down to the minimum instead of up.
AtLeast_new_target_min(target, min_size) ==
    IF target <= min_size THEN target ELSE min_size
\* AtLeastBuffer::try_grow: the target handed to the inner buffer.
AtLeast_new_target(target, min_size) == Max(target, min_size)

\* IndirectBuffer::try_shrink (not overridden): the target is passed on.
Indirect_shrink_target(target) == target
Indirect_try_shrink(k, inr, n, arr, b, hp, target, ok) ==
    Buffer_try_shrink(k, inr, n, arr, b, hp, Indirect_shrink_target(target), ok)

\* GrowMockBuffer::from: last_target starts at 0.
GrowMock_from == [last_target |-> 0]
\* GrowMockBuffer::try_grow: records the target, then forwards it.
GrowMock_try_grow(m, target) == [m EXCEPT !.last_target = target]

\* ------------------------------------- ZstBuffer and ConditionalBuffer
\* usize::MAX.
UsizeMax == 2^UsizeBits - 1
\* The one value of a zero-sized type.
Unit == 1

\* ZstBuffer::capacity.
Zst_capacity == UsizeMax
\* ZstBuffer::take: a value read through a dangling pointer.
Zst_take(i) == Unit
\* ZstBuffer::put: nothing is stored; the value it was given goes out of
\* scope when put returns, so its destructor runs.  Yields the counter.
Zst_put(i, v, c) == LifeCounter_drop(c)
\* ZstBuffer::manually_drop: does nothing.
Zst_manually_drop(i, c) == c
\* Variant: growing is accepted.
Zst_try_grow_ok(target) == Ok
Zst_try_grow(target) == UnsupportedOperation
Zst_try_shrink(target) == UnsupportedOperation

\* ZstSelector::SELECT_A.
ZstSelector_SELECT_A(es) == es = 0
\* MaybeUninit::uninit(): the buffer in this field was never constructed.
Uninit == [uninit |-> TRUE]
\* impl Default for ConditionalBuffer: the field `b` (`a` is a ZstBuffer,
\* which has no fields).
Conditional_default(sel, k) == IF sel THEN Uninit ELSE Big_default(k)
Conditional_capacity(sel, b) == IF sel THEN Zst_capacity ELSE Heap_capacity(b)
\* What the ZstBuffer in `a` answers to a resize.
Conditional_first(b, hp, res) == [b |-> b, hp |-> hp, res |-> res, call |-> "none"]
Conditional_try_grow(sel, k, b, hp, target, ok) ==
    IF sel
    THEN Conditional_first(b, hp, Zst_try_grow(target))
    ELSE Big_try_grow(k, b, hp, target, ok)
Conditional_try_shrink(sel, k, b, hp, target, ok) ==
    IF sel
    THEN Conditional_first(b, hp, Zst_try_shrink(target))
    ELSE Big_try_shrink(k, b, hp, target, ok)
\* impl Drop for ConditionalBuffer: drops the selected field.
Conditional_drop(sel, k, b, hp) ==
    IF sel THEN NotReleased(b, hp) ELSE Big_drop(k, b, hp)

\* ------------------------------------- Buffer::shift_right / shift_left
\* A RangeBounds<usize> bound is Included(index), Excluded(index) or
\* Unbounded.
BoundKinds == {"Included", "Excluded", "Unbounded"}
\* clamp_buffer_range: the start and the end of the Range it returns.
clamp_start(sb, index) ==
    IF sb = "Included" THEN index ELSE IF sb = "Excluded" THEN index + 1 ELSE 0
clamp_end(eb, index, cap) ==
    IF eb = "Included" THEN index + 1 ELSE IF eb = "Excluded" THEN index ELSE cap

\* usize subtraction in a build without overflow checks.
wrapping_sub(a, b) == (a - b) % (2^UsizeBits)

\* The state of a shift under way: the slots, the counter, whether it is
\* unwinding (res = Panic), and whether an empty slot was read or a filled
\* slot overwritten so far.
ShiftState(arr, c, res, re, ow) ==
    [array |-> arr, counter |-> c, res |-> res, read_empty |-> re, overwrote |-> ow]

\* self.write_value(new_pos, value), value having been read from old_pos of
\* the slots `was` (rd is the result of that read).  Indexing the array out
\* of bounds panics and the value is dropped while unwinding.
ShiftWrite(st, was, rd, old_pos, new_pos) ==
    IF new_pos \notin DOMAIN rd.array
    THEN ShiftState(rd.array, drop_in_place(rd.val, st.counter), Panic,
                    st.read_empty \/ was[old_pos] = Empty, st.overwrote)
    ELSE ShiftState(Inline_write_value(rd.array, new_pos, rd.val), st.counter, Ok,
                    st.read_empty \/ was[old_pos] = Empty,
                    st.overwrote \/ rd.array[new_pos] # Empty)

\* One iteration of the loop: read_value(old_pos), then write_value(new_pos).
ShiftStep(st, old_pos, new_pos) ==
    IF st.res # Ok THEN st
    ELSE IF old_pos \notin DOMAIN st.array
    THEN ShiftState(st.array, st.counter, Panic, st.read_empty, st.overwrote)
    ELSE ShiftWrite(st, st.array, Inline_read_value(st.array, old_pos), old_pos, new_pos)

\* for old_pos in range.into_iter().rev(): from `old_pos` down to `start`.
RECURSIVE ShiftRightFrom(_, _, _, _)
\* Variant: the range is walked from the lowest index to the highest.
RECURSIVE ShiftRightForward(_, _, _, _)
ShiftRightForward(st, old_pos, start, p) ==
    IF old_pos < start THEN st
    ELSE ShiftRightForward(ShiftStep(st, start, start + p), old_pos, start + 1, p)
ShiftRightFrom(st, old_pos, start, p) ==
    IF old_pos < start THEN st
    ELSE ShiftRightFrom(ShiftStep(st, old_pos, old_pos + p), old_pos - 1, start, p)

\* Buffer::shift_right on the range start..end (already clamped).
shift_right(arr, c, cap, start, end, p, dbg) ==
    IF dbg /\ ~(end + p <= cap)
    THEN ShiftState(arr, c, Panic, FALSE, FALSE)
    ELSE ShiftRightFrom(ShiftState(arr, c, Ok, FALSE, FALSE), end - 1, start, p)

\* let new_pos = old_pos - positions: with overflow checks (a debug build) an
\* underflow panics before anything is read; without, it wraps.
ShiftLeftStep(st, old_pos, p, dbg) ==
    IF st.res # Ok THEN st
    ELSE IF old_pos < p /\ dbg
    THEN ShiftState(st.array, st.counter, Panic, st.read_empty, st.overwrote)
    ELSE ShiftStep(st, old_pos, wrapping_sub(old_pos, p))

\* for old_pos in range.into_iter(): from `old_pos` up to `end` - 1.
RECURSIVE ShiftLeftFrom(_, _, _, _, _)
\* Variant: the range is walked from the highest index to the lowest.
RECURSIVE ShiftLeftBackward(_, _, _, _, _)
ShiftLeftBackward(st, old_pos, end, p, dbg) ==
    IF old_pos >= end THEN st
    ELSE ShiftLeftBackward(ShiftLeftStep(st, end - 1, p, dbg), old_pos, end - 1, p, dbg)
ShiftLeftFrom(st, old_pos, end, p, dbg) ==
    IF old_pos >= end THEN st
    ELSE ShiftLeftFrom(ShiftLeftStep(st, old_pos, p, dbg), old_pos + 1, end, p, dbg)

\* debug_assert!(range.end >= positions) at the top of shift_left.
shift_left_assertion(start, end, p) == end >= p
\* Buffer::shift_left on the range start..end (already clamped).
shift_left(arr, c, cap, start, end, p, dbg) ==
    IF dbg /\ ~shift_left_assertion(start, end, p)
    THEN ShiftState(arr, c, Panic, FALSE, FALSE)
    ELSE ShiftLeftFrom(ShiftState(arr, c, Ok, FALSE, FALSE), start, end, p, dbg)

\* ------------------------------ ContiguousMemoryBuffer::slice / mut_slice
\* The (start, size) start_len has computed, or the panic it ended in.
StartLen(start, len, res) == [start |-> start, len |-> len, res |-> res]
\* start_len, on the range start..end as clamped by its two matches: the
\* size is 0 when start <= end and end - start otherwise, a subtraction
\* that panics when overflow is checked and wraps when not.
start_len(start, end, dbg) ==
    IF start <= end
    THEN StartLen(start, 0, Ok)
    ELSE IF dbg
    THEN StartLen(start, 0, Panic)
    ELSE StartLen(start, wrapping_sub(end, start), Ok)
\* std::slice::from_raw_parts(self.ptr(start), len): InlineBuffer::ptr
\* indexes the array, which panics out of bounds.
from_raw_parts(arr, sl) ==
    IF sl.res # Ok THEN [res |-> Panic, at |-> 0, len |-> 0]
    ELSE IF sl.start \notin DOMAIN arr THEN [res |-> Panic, at |-> 0, len |-> 0]
    ELSE [res |-> Ok, at |-> sl.start, len |-> sl.len]
\* ContiguousMemoryBuffer::slice and mut_slice.
slice(arr, start, end, dbg) == from_raw_parts(arr, start_len(start, end, dbg))
mut_slice(arr, start, end, dbg) == from_raw_parts(arr, start_len(start, end, dbg))

\* --------------------------------------- EitherBuffer as a column type
\* A column of the ArrayBuffer is an EitherBuffer<InlineBuffer<T, n>, Big>:
\* [inner, array, big], of which the variant named by `inner` exists.
Column(inr, arr, b) == [inner |-> inr, array |-> arr, big |-> b]
Either_First(n) == Column("First", Inline_new(n), Uninit)
Either_Second(k) == Column("Second", EmptyCells(0), Big_default(k))
\* What a call on a column answered: the column and the allocator after it.
ColumnResult(col, hp, res, call) == [col |-> col, hp |-> hp, res |-> res, call |-> call]
\* The answer r of the heap-allocated buffer of column col.
ColumnForwarded(col, r) == ColumnResult([col EXCEPT !.big = r.b], r.hp, r.res, r.call)

Either_capacity(n, col) ==
    IF col.inner = "First" THEN Inline_capacity(n) ELSE Heap_capacity(col.big)
\* Content of slot i of the active variant.
Either_slot(col, hp, i) ==
    IF col.inner = "First"
    THEN (IF i \in DOMAIN col.array THEN col.array[i] ELSE Empty)
    ELSE BlockGet(hp, col.big.ptr, i)
Either_write_value(col, hp, i, v) ==
    IF col.inner = "First"
    THEN ColumnResult([col EXCEPT !.array = Inline_write_value(@, i, v)], hp, Ok, "none")
    ELSE ColumnResult(col, Big_write_value(col.big, hp, i, v), Ok, "none")
\* The column and the allocator after read_value(i) or manually_drop(i).
Either_emptied(col, hp, i) ==
    IF col.inner = "First"
    THEN ColumnResult([col EXCEPT !.array = Inline_read_value(@, i).array], hp, Ok, "none")
    ELSE ColumnResult(col, Big_read_value(col.big, hp, i).hp, Ok, "none")
Either_try_grow(k, col, hp, target, ok) ==
    IF col.inner = "First"
    THEN ColumnResult(col, hp, Inline_try_grow(target), "none")
    ELSE ColumnForwarded(col, Big_try_grow(k, col.big, hp, target, ok))
Either_try_shrink(k, col, hp, target, ok) ==
    IF col.inner = "First"
    THEN ColumnResult(col, hp, Inline_try_shrink(target), "none")
    ELSE ColumnForwarded(col, Big_try_shrink(k, col.big, hp, target, ok))
\* Drop glue of EitherBuffer: drops the active variant.
Either_drop(k, col, hp) ==
    IF col.inner = "First"
    THEN ColumnResult(col, hp, Ok, "none")
    ELSE ColumnForwarded(col, [b |-> Big_drop(k, col.big, hp).b,
                               hp |-> Big_drop(k, col.big, hp).hp,
                               res |-> Ok,
                               call |-> Big_drop(k, col.big, hp).call])

\* ------------------------------------------------------------ ArrayBuffer
\* The state of a call that walks the columns: the columns and the
\* allocator so far, the Result, and what each column answered.
Walk(bufs, hp, res, log) == [buffers |-> bufs, hp |-> hp, res |-> res, asked |-> log]
\* A column the loop did not reach, or did not ask.
NotAsked == "not asked"
Skipped == "skipped"
\* The log completed for the columns from k on, which were not reached.
Unreached(log, n) == log \o [j \in 1..(n - Len(log)) |-> NotAsked]

\* Iterator::min over the capacities of the columns from k on, m being the
\* minimum so far (None before the first column); unwrap_or(0).
RECURSIVE MinCapacityFrom(_, _, _, _)
MinCapacityFrom(n, bufs, k, m) ==
    IF k > Len(bufs) THEN (IF m = -1 THEN 0 ELSE m)
    ELSE MinCapacityFrom(n, bufs, k + 1,
            IF m = -1 \/ Either_capacity(n, bufs[k]) < m
            THEN Either_capacity(n, bufs[k]) ELSE m)
\* ArrayBuffer::capacity.
Array_capacity(n, bufs) == MinCapacityFrom(n, bufs, 1, -1)

\* ArrayBuffer::write_value: column k gets component k of the value.
RECURSIVE Array_write_from(_, _, _, _, _)
Array_write_next(bufs, k, i, value, r) ==
    Array_write_from([bufs EXCEPT ![k] = r.col], r.hp, k + 1, i, value)
\* Variant: every column gets the first component of the value.
Array_write_first(bufs, hp, k, i, value) ==
    IF k > Len(bufs) THEN Walk(bufs, hp, Ok, <<>>)
    ELSE Array_write_next(bufs, k, i, value, Either_write_value(bufs[k], hp, i, value[1]))
Array_write_from(bufs, hp, k, i, value) ==
    IF k > Len(bufs) THEN Walk(bufs, hp, Ok, <<>>)
    ELSE Array_write_next(bufs, k, i, value, Either_write_value(bufs[k], hp, i, value[k]))
Array_write_value(bufs, hp, i, value) == Array_write_from(bufs, hp, 1, i, value)

\* ArrayBuffer::read_value: component k of the result is read from column k;
\* the columns are emptied one after the other.
Array_read_result(bufs, hp, i) == [k \in 1..Len(bufs) |-> Either_slot(bufs[k], hp, i)]
RECURSIVE Array_empty_from(_, _, _, _)
Array_empty_next(bufs, k, i, r) ==
    Array_empty_from([bufs EXCEPT ![k] = r.col], r.hp, k + 1, i)
Array_empty_from(bufs, hp, k, i) ==
    IF k > Len(bufs) THEN Walk(bufs, hp, Ok, <<>>)
    ELSE Array_empty_next(bufs, k, i, Either_emptied(bufs[k], hp, i))
Array_read_value(bufs, hp, i) == Array_empty_from(bufs, hp, 1, i)
\* ArrayBuffer::manually_drop: every column drops its slot i in place.
Array_manually_drop(bufs, hp, i) == Array_empty_from(bufs, hp, 1, i)
\* The counter after the destructors of the values of slot i have run.
RECURSIVE Array_drop_count(_, _, _, _, _)
Array_drop_count(bufs, hp, k, i, c) ==
    IF k > Len(bufs) THEN c
    ELSE Array_drop_count(bufs, hp, k + 1, i, drop_in_place(Either_slot(bufs[k], hp, i), c))

\* ArrayBuffer::try_grow: the columns below the target are asked in turn;
\* Ok and UnsupportedOperation go on, any other error returns at once.
RECURSIVE Array_grow_from(_, _, _, _, _, _, _, _)
\* Variant: UnsupportedOperation is returned like any other error.
Array_grow_next_strict(kd, n, bufs, k, target, oks, log, r) ==
    IF r.res = Ok
    THEN Array_grow_from(kd, n, [bufs EXCEPT ![k] = r.col], r.hp, k + 1, target, oks,
                         Append(log, r.res))
    ELSE Walk([bufs EXCEPT ![k] = r.col], r.hp, r.res,
              Unreached(Append(log, r.res), Len(bufs)))
Array_grow_next(kd, n, bufs, k, target, oks, log, r) ==
    IF r.res \in {Ok, UnsupportedOperation}
    THEN Array_grow_from(kd, n, [bufs EXCEPT ![k] = r.col], r.hp, k + 1, target, oks,
                         Append(log, r.res))
    ELSE Walk([bufs EXCEPT ![k] = r.col], r.hp, r.res,
              Unreached(Append(log, r.res), Len(bufs)))
Array_grow_from(kd, n, bufs, hp, k, target, oks, log) ==
    IF k > Len(bufs) THEN Walk(bufs, hp, Ok, log)
    ELSE IF Either_capacity(n, bufs[k]) < target
    THEN Array_grow_next(kd, n, bufs, k, target, oks, log,
                         Either_try_grow(kd, bufs[k], hp, target, oks[k]))
    ELSE Array_grow_from(kd, n, bufs, hp, k + 1, target, oks, Append(log, Skipped))
Array_try_grow(kd, n, bufs, hp, target, oks) ==
    Array_grow_from(kd, n, bufs, hp, 1, target, oks, <<>>)

\* ArrayBuffer::try_shrink: every column is asked in turn.
RECURSIVE Array_shrink_from(_, _, _, _, _, _, _, _)
Array_shrink_next(kd, n, bufs, k, target, oks, log, r) ==
    IF r.res \in {Ok, UnsupportedOperation}
    THEN Array_shrink_from(kd, n, [bufs EXCEPT ![k] = r.col], r.hp, k + 1, target, oks,
                           Append(log, r.res))
    ELSE Walk([bufs EXCEPT ![k] = r.col], r.hp, r.res,
              Unreached(Append(log, r.res), Len(bufs)))
Array_shrink_from(kd, n, bufs, hp, k, target, oks, log) ==
    IF k > Len(bufs) THEN Walk(bufs, hp, Ok, log)
    ELSE Array_shrink_next(kd, n, bufs, k, target, oks, log,
                           Either_try_shrink(kd, bufs[k], hp, target, oks[k]))
Array_try_shrink(kd, n, bufs, hp, target, oks) ==
    Array_shrink_from(kd, n, bufs, hp, 1, target, oks, <<>>)

\* Drop glue of ArrayBuffer: the columns are dropped in order.
RECURSIVE Array_drop_from(_, _, _, _)
Array_drop_next(kd, bufs, k, r) ==
    Array_drop_from(kd, [bufs EXCEPT ![k] = r.col], r.hp, k + 1)
Array_drop_from(kd, bufs, hp, k) ==
    IF k > Len(bufs) THEN Walk(bufs, hp, Ok, <<>>)
    ELSE Array_drop_next(kd, bufs, k, Either_drop(kd, bufs[k], hp))
Array_drop(kd, bufs, hp) == Array_drop_from(kd, bufs, hp, 1)

VARIABLES
    kind,       \* which Buffer implementation this run is about
    size,       \* const SIZE / SMALL_SIZE / slice length (0 for heap kinds)
    alive,      \* FALSE once the buffer has been dropped
    inner,      \* SvoBuffer.inner: "First" (inline) or "Second" (big)
    array,      \* InlineBuffer.array / SliceBuffer.slice
    big,        \* HeapBuffer / AllocatorBuffer fields: [ptr, cap]
    heap,       \* allocator state
    counter,    \* LifeCounter's AtomicI64
    ret,        \* element returned by the last read_value, still owned by the caller
    last,       \* record of the last call made on the buffer
    wrapper,    \* the composite under test: "exponent_growth" or "at_least"
    min_size,   \* const MIN_SIZE of the AtLeastBuffer
    mock,       \* GrowMockBuffer fields: [last_target]
    seen,       \* last resize call the composite made, and what the
                \* InlineBuffer under the mock was asked
    elem_size,  \* std::mem::size_of::<T>() of the element type
    filled,     \* positions of a ZstBuffer the caller has filled
    debug,      \* cfg!(debug_assertions): debug_assert! is compiled in
    moved,      \* record of the last shift_right / shift_left call
    view,       \* record of the last slice / mut_slice call
    buffers,    \* ArrayBuffer.buffers: the columns
    asked,      \* what each column answered in the last ArrayBuffer resize
    len         \* Vector.len

bufVars == <<kind, size, alive, inner, array, big, heap, counter, ret, last>>
growVars == <<wrapper, min_size, mock, seen>>
zstVars == <<elem_size, filled>>
shiftVars == <<debug, moved, view>>
arrayVars == <<buffers, asked>>
vecVars == <<len>>
extVars == <<zstVars, shiftVars, arrayVars, vecVars>>
otherVars == <<growVars, extVars>>
vars == <<bufVars, growVars, extVars>>

Kinds == {"inline", "slice", "heap", "allocator", "svo_heap", "svo_allocator"}

\* The active storage is the inline array (InlineBuffer, SliceBuffer, or an
\* SvoBuffer whose EitherBuffer is First); otherwise it is the heap block.
UsesArray == IsInlineKind(kind) \/ (IsSvoKind(kind) /\ inner = "First")

\* Buffer::capacity.
Capacity == IF UsesArray THEN Inline_capacity(size) ELSE Heap_capacity(big)

\* Content of slot i of the active storage.
Slot(i) == IF UsesArray THEN array[i] ELSE BlockGet(heap, big.ptr, i)

Indices == 0..(Capacity - 1)
\* The slots of the active storage.
Slots == [i \in Indices |-> Slot(i)]

NoCall == [op |-> "new", index |-> 0, value |-> None, target |-> 0, res |-> Ok,
           call |-> "none", via |-> "direct", counterBefore |-> 0]

NotCalled == [op |-> "new", target |-> 0, inner_target |-> 0, res |-> Ok]

\* No shift / slice call has been made yet.
NoShift == [op |-> "new", start |-> 0, end |-> 0, positions |-> 0, res |-> Ok,
            read_empty |-> FALSE, overwrote |-> FALSE]
NoView == [op |-> "new", start |-> 0, end |-> 0, res |-> Ok, at |-> 0, len |-> 0]

\* The variables of the other scenarios, at rest.
GrowAtRest ==
    /\ wrapper = "none"
    /\ min_size = 0
    /\ mock = GrowMock_from
    /\ seen = NotCalled
ZstAtRest == elem_size = 1 /\ filled = {}
ShiftAtRest == debug = TRUE /\ moved = NoShift /\ view = NoView
ArrayAtRest == buffers = <<>> /\ asked = <<>>
VecAtRest == len = 0
InitExt == ZstAtRest /\ ShiftAtRest /\ ArrayAtRest /\ VecAtRest

Init ==
    /\ kind \in Kinds
    /\ size \in 0..MaxSize
    /\ IsHeapKind(kind) => size = 0
    /\ alive = TRUE
    /\ inner = Either_default
    /\ array = Inline_new(size)
    /\ big = Big_default(kind)
    /\ heap = HeapInit
    /\ counter = 0
    /\ ret = None
    /\ last = NoCall
    /\ wrapper = "none"
    /\ min_size = 0
    /\ mock = GrowMock_from
    /\ seen = NotCalled
    /\ InitExt

Called(op, i, v, target, res, call, via) ==
    [op |-> op, index |-> i, value |-> v, target |-> target, res |-> res,
     call |-> call, via |-> via, counterBefore |-> counter]

\* buffer.write_value(i, LifeCounter::new(&counter)); the slot must be empty.
WriteValue(i, v) ==
    /\ alive
    /\ i \in Indices
    /\ Slot(i) = Empty
    /\ counter' = LifeCounter_new(counter)
    /\ IF UsesArray
       THEN array' = Inline_write_value(array, i, v) /\ heap' = heap
       ELSE heap' = Big_write_value(big, heap, i, v) /\ array' = array
    /\ last' = Called("write_value", i, v, 0, Ok, "none", "direct")
    /\ UNCHANGED <<kind, size, alive, inner, big, ret>>
    /\ UNCHANGED otherVars

\* let r = buffer.read_value(i); the slot must be filled.  The caller owns r.
ReadValue(i) ==
    /\ alive
    /\ ret = None
    /\ i \in Indices
    /\ Slot(i) # Empty
    /\ IF UsesArray
       THEN /\ array' = Inline_read_value(array, i).array
            /\ ret' = Inline_read_value(array, i).val
            /\ heap' = heap
       ELSE /\ heap' = Big_read_value(big, heap, i).hp
            /\ ret' = Big_read_value(big, heap, i).val
            /\ array' = array
    /\ last' = Called("read_value", i, ret', 0, Ok, "none", "direct")
    /\ UNCHANGED <<kind, size, alive, inner, big, counter>>
    /\ UNCHANGED otherVars

\* buffer.manually_drop(i); the slot must be filled.
ManuallyDrop(i) ==
    /\ alive
    /\ i \in Indices
    /\ Slot(i) # Empty
    /\ IF UsesArray
       THEN /\ array' = Inline_manually_drop(array, i, counter).array
            /\ counter' = Inline_manually_drop(array, i, counter).counter
            /\ heap' = heap
       ELSE /\ heap' = Big_manually_drop(big, heap, i, counter).hp
            /\ counter' = Big_manually_drop(big, heap, i, counter).counter
            /\ array' = array
    /\ last' = Called("manually_drop", i, None, 0, Ok, "none", "direct")
    /\ UNCHANGED <<kind, size, alive, inner, big, ret>>
    /\ UNCHANGED otherVars

\* The caller drops the element it got from read_value.
DropRet ==
    /\ ret # None
    /\ ret' = None
    /\ counter' = LifeCounter_drop(counter)
    /\ last' = Called("drop_value", 0, ret, 0, Ok, "none", "direct")
    /\ UNCHANGED <<kind, size, alive, inner, array, big, heap>>
    /\ UNCHANGED otherVars

\* The buffer's fields after a resize call that answered r.
Resize(op, target, r) ==
    /\ inner' = r.inner
    /\ array' = r.array
    /\ big' = r.big
    /\ heap' = r.hp
    /\ last' = Called(op, 0, None, target, r.res, r.call, r.via)

\* buffer.try_grow(target).  The fixed-size buffers ignore the target; the
\* others are called within the contract, target > capacity().
TryGrow(target, ok) ==
    /\ alive
    /\ IsInlineKind(kind) \/ target > Capacity
    /\ Resize("try_grow", target,
              Buffer_try_grow(kind, inner, size, array, big, heap, target, ok))
    /\ UNCHANGED <<kind, size, alive, counter, ret>>
    /\ UNCHANGED otherVars

\* buffer.try_shrink(target), within the contract: target < capacity() and
\* the slots from target on are empty.
TryShrink(target, ok) ==
    /\ alive
    /\ IsInlineKind(kind) \/ target < Capacity
    /\ \A i \in Indices : i >= target => Slot(i) = Empty
    /\ Resize("try_shrink", target,
              Buffer_try_shrink(kind, inner, size, array, big, heap, target, ok))
    /\ UNCHANGED <<kind, size, alive, counter, ret>>
    /\ UNCHANGED otherVars

\* The buffer's fields after its destructor, which answered r.
Destroyed(r) ==
    /\ big' = r.b
    /\ heap' = r.hp
    /\ last' = Called("drop", 0, None, 0, Ok, r.call, "direct")

\* The buffer goes out of scope.
DropBuffer ==
    /\ alive
    /\ alive' = FALSE
    /\ Destroyed(Buffer_drop(kind, inner, big, heap))
    /\ counter' = release_slots(Slots, counter)
    /\ UNCHANGED <<kind, size, inner, array, ret>>
    /\ UNCHANGED otherVars

Next ==
    \/ \E i \in 0..MaxTarget, v \in Values : WriteValue(i, v)
    \/ \E i \in 0..MaxTarget : ReadValue(i)
    \/ \E i \in 0..MaxTarget : ManuallyDrop(i)
    \/ DropRet
    \/ \E target \in 0..MaxTarget, ok \in BOOLEAN : TryGrow(target, ok)
    \/ \E target \in 0..MaxTarget, ok \in BOOLEAN : TryShrink(target, ok)
    \/ DropBuffer

Spec == Init /\ [][Next]_vars

\* ---------------------------------------------- the grow-target composites
\* As in the crate's tests: the composite wraps &mut GrowMockBuffer, which
\* wraps an InlineBuffer<u32, 1>.
InitGrow ==
    /\ kind = "inline"
    /\ size = 1
    /\ alive = TRUE
    /\ inner = Either_default
    /\ array = Inline_new(size)
    /\ big = Big_default(kind)
    /\ heap = HeapInit
    /\ counter = 0
    /\ ret = None
    /\ last = NoCall
    /\ wrapper \in {"exponent_growth", "at_least"}
    /\ min_size \in 0..MaxMinSize
    /\ wrapper = "exponent_growth" => min_size = 0
    /\ mock = GrowMock_from
    /\ seen = NotCalled
    /\ InitExt

\* ExponentGrowthBuffer::from(&mut mock).try_grow(target), target >= 1 as the
\* contract of try_grow demands (target > capacity()).
ExponentGrow(target) ==
    /\ wrapper = "exponent_growth"
    /\ target >= 1
    /\ mock' = GrowMock_try_grow(mock, ExponentGrowth_new_target(target))
    /\ seen' = [op |-> "try_grow", target |-> target,
                inner_target |-> ExponentGrowth_new_target(target),
                res |-> Inline_try_grow(ExponentGrowth_new_target(target))]
    /\ UNCHANGED <<wrapper, min_size, bufVars, extVars>>

\* AtLeastBuffer::<MIN_SIZE, _>::from(&mut mock).try_grow(target).
AtLeastGrow(target) ==
    /\ wrapper = "at_least"
    /\ mock' = GrowMock_try_grow(mock, AtLeast_new_target(target, min_size))
    /\ seen' = [op |-> "try_grow", target |-> target,
                inner_target |-> AtLeast_new_target(target, min_size),
                res |-> Inline_try_grow(AtLeast_new_target(target, min_size))]
    /\ UNCHANGED <<wrapper, min_size, bufVars, extVars>>

\* try_shrink(target) on either composite: forwarded by IndirectBuffer's
\* default through the mock (which records grow targets only).
WrappedShrink(target) ==
    /\ wrapper \in {"exponent_growth", "at_least"}
    /\ seen' = [op |-> "try_shrink", target |-> target,
                inner_target |-> Indirect_shrink_target(target),
                res |-> Inline_try_shrink(Indirect_shrink_target(target))]
    /\ UNCHANGED <<wrapper, min_size, mock, bufVars, extVars>>

NextGrow ==
    \/ \E target \in 0..MaxGrowTarget : ExponentGrow(target)
    \/ \E target \in 0..MaxGrowTarget : AtLeastGrow(target)
    \/ \E target \in 0..MaxGrowTarget : WrappedShrink(target)

SpecGrow == InitGrow /\ [][NextGrow]_vars

\* ------------------------------------------------ ZstBuffer / ZstoBuffer
\* A ZstBuffer<T>, or a ZstoBuffer over a HeapBuffer<T> / AllocatorBuffer<T>,
\* for an element type of size elem_size.
ZstKinds == {"zst", "zsto_heap", "zsto_allocator"}
\* The buffer in use is the ZstBuffer.
SelectA == kind = "zst" \/ ZstSelector_SELECT_A(elem_size)
ZstInner == IF kind = "zsto_allocator" THEN "allocator" ELSE "heap"
ZstVia == IF kind = "zst" THEN "direct" ELSE IF SelectA THEN "first" ELSE "second"
ZstCapacity == IF kind = "zst" THEN Zst_capacity ELSE Conditional_capacity(SelectA, big)
ZstSlot(i) ==
    IF SelectA
    THEN (IF i \in filled THEN Unit ELSE Empty)
    ELSE BlockGet(heap, big.ptr, i)
\* Positions and targets tried: the small ones and the far end of usize.
ZstPositions == 0..(LayoutMax - 1) \cup {UsizeMax - 1}
ZstTargets == 0..MaxTarget \cup {UsizeMax}

InitZst ==
    /\ kind \in ZstKinds
    /\ elem_size \in {0, 1}
    /\ kind = "zst" => elem_size = 0
    /\ size = 0
    /\ alive = TRUE
    /\ inner = Either_default
    /\ array = Inline_new(size)
    /\ big = Conditional_default(SelectA, ZstInner)
    /\ heap = HeapInit
    /\ counter = 0
    /\ ret = None
    /\ last = NoCall
    /\ filled = {}
    /\ GrowAtRest /\ ShiftAtRest /\ ArrayAtRest /\ VecAtRest

\* buffer.put(i, v) / write_value(i, v) on an empty position.
ZstWrite(i, v) ==
    /\ alive
    /\ i < ZstCapacity
    /\ ZstSlot(i) = Empty
    /\ IF SelectA
       THEN /\ v = Unit
            /\ filled' = filled \cup {i}
            /\ counter' = Zst_put(i, v, LifeCounter_new(counter))
            /\ heap' = heap
       ELSE /\ filled' = filled
            /\ counter' = LifeCounter_new(counter)
            /\ heap' = Big_write_value(big, heap, i, v)
    /\ last' = Called("write_value", i, v, 0, Ok, "none", ZstVia)
    /\ UNCHANGED <<kind, size, alive, inner, array, big, ret, elem_size>>
    /\ UNCHANGED <<growVars, vecVars, shiftVars, arrayVars>>

\* let r = buffer.take(i) / read_value(i) on a filled position.
ZstRead(i) ==
    /\ alive
    /\ ret = None
    /\ SelectA => counter > -MaxTakes
    /\ i < ZstCapacity
    /\ ZstSlot(i) # Empty
    /\ IF SelectA
       THEN /\ filled' = filled \ {i}
            /\ ret' = Zst_take(i)
            /\ heap' = heap
       ELSE /\ filled' = filled
            /\ ret' = Big_read_value(big, heap, i).val
            /\ heap' = Big_read_value(big, heap, i).hp
    /\ last' = Called("read_value", i, ret', 0, Ok, "none", ZstVia)
    /\ UNCHANGED <<kind, size, alive, inner, array, big, counter, elem_size>>
    /\ UNCHANGED <<growVars, vecVars, shiftVars, arrayVars>>

\* buffer.manually_drop(i) on a filled position.
ZstManuallyDrop(i) ==
    /\ alive
    /\ i < ZstCapacity
    /\ ZstSlot(i) # Empty
    /\ IF SelectA
       THEN /\ filled' = filled \ {i}
            /\ counter' = Zst_manually_drop(i, counter)
            /\ heap' = heap
       ELSE /\ filled' = filled
            /\ counter' = Big_manually_drop(big, heap, i, counter).counter
            /\ heap' = Big_manually_drop(big, heap, i, counter).hp
    /\ last' = Called("manually_drop", i, None, 0, Ok, "none", ZstVia)
    /\ UNCHANGED <<kind, size, alive, inner, array, big, ret, elem_size>>
    /\ UNCHANGED <<growVars, vecVars, shiftVars, arrayVars>>

\* The fields after a resize call that answered r.
ZstResized(op, target, r) ==
    /\ big' = r.b
    /\ heap' = r.hp
    /\ last' = Called(op, 0, None, target, r.res, r.call, ZstVia)
    /\ UNCHANGED <<kind, size, alive, inner, array, counter, ret>>
    /\ UNCHANGED <<zstVars, growVars, vecVars, shiftVars, arrayVars>>

\* buffer.try_grow(target).  A ZstBuffer is asked for any target (none is
\* above usize::MAX); the inner buffer within the contract.
ZstTryGrow(target, ok) ==
    /\ alive
    /\ SelectA \/ target > ZstCapacity
    /\ ZstResized("try_grow", target,
           IF kind = "zst"
           THEN Conditional_first(big, heap, Zst_try_grow(target))
           ELSE Conditional_try_grow(SelectA, ZstInner, big, heap, target, ok))

\* buffer.try_shrink(target).
ZstTryShrink(target, ok) ==
    /\ alive
    /\ SelectA \/ target < ZstCapacity
    /\ \A i \in ZstPositions : i >= target => ZstSlot(i) = Empty
    /\ ZstResized("try_shrink", target,
           IF kind = "zst"
           THEN Conditional_first(big, heap, Zst_try_shrink(target))
           ELSE Conditional_try_shrink(SelectA, ZstInner, big, heap, target, ok))

\* The buffer goes out of scope.
ZstDropBuffer ==
    /\ alive
    /\ alive' = FALSE
    /\ Destroyed(Conditional_drop(SelectA, ZstInner, big, heap))
    /\ UNCHANGED <<kind, size, inner, array, counter, ret>>
    /\ UNCHANGED <<zstVars, growVars, vecVars, shiftVars, arrayVars>>

NextZst ==
    \/ \E i \in ZstPositions, v \in Values : ZstWrite(i, v)
    \/ \E i \in ZstPositions : ZstRead(i)
    \/ \E i \in ZstPositions : ZstManuallyDrop(i)
    \/ DropRet
    \/ \E target \in ZstTargets, ok \in BOOLEAN : ZstTryGrow(target, ok)
    \/ \E target \in ZstTargets, ok \in BOOLEAN : ZstTryShrink(target, ok)
    \/ ZstDropBuffer

SpecZst == InitZst /\ [][NextZst]_vars

\* ----------------------------------------------- shifting and slicing
\* The positions j with lo <= j < hi.
Between(lo, hi) == {j \in 0..(ShiftSize + ShiftSize) : lo <= j /\ j < hi}
\* An InlineBuffer<T, ShiftSize> whose slots the caller has filled in any
\* way, in a debug or a release build.
SlotContents == {Empty} \cup Values
FilledCount(arr) == Cardinality({k \in DOMAIN arr : arr[k] # Empty})
InitShift ==
    /\ kind = "inline"
    /\ size = ShiftSize
    /\ alive = TRUE
    /\ inner = Either_default
    /\ array \in [0..(size - 1) -> SlotContents]
    /\ big = Big_default(kind)
    /\ heap = HeapInit
    /\ counter = FilledCount(array)
    /\ ret = None
    /\ last = NoCall
    /\ debug \in BOOLEAN
    /\ moved = NoShift
    /\ view = NoView
    /\ GrowAtRest /\ ZstAtRest /\ ArrayAtRest /\ VecAtRest

\* The buffer after a shift call on start..end that ended in st.
Shifted(op, start, end, p, st) ==
    /\ array' = st.array
    /\ counter' = st.counter
    /\ moved' = [op |-> op, start |-> start, end |-> end, positions |-> p,
                 res |-> st.res, read_empty |-> st.read_empty,
                 overwrote |-> st.overwrote]
    /\ UNCHANGED <<kind, size, alive, inner, big, heap, ret, last>>
    /\ UNCHANGED <<debug, view, growVars, vecVars, zstVars, arrayVars>>

\* buffer.shift_right(to_move, p), the one shift call of the run.
ShiftRight(sb, s, eb, e, p) ==
    /\ alive
    /\ moved = NoShift
    /\ Shifted("shift_right", clamp_start(sb, s), clamp_end(eb, e, Capacity), p,
               shift_right(array, counter, Capacity, clamp_start(sb, s),
                           clamp_end(eb, e, Capacity), p, debug))

\* buffer.shift_left(to_move, p), the one shift call of the run.
ShiftLeft(sb, s, eb, e, p) ==
    /\ alive
    /\ moved = NoShift
    /\ Shifted("shift_left", clamp_start(sb, s), clamp_end(eb, e, Capacity), p,
               shift_left(array, counter, Capacity, clamp_start(sb, s),
                          clamp_end(eb, e, Capacity), p, debug))

ShiftIndices == 0..ShiftSize

NextShift ==
    \/ \E sb \in BoundKinds, eb \in BoundKinds, s \in ShiftIndices,
          e \in ShiftIndices, p \in ShiftIndices : ShiftRight(sb, s, eb, e, p)
    \/ \E sb \in BoundKinds, eb \in BoundKinds, s \in ShiftIndices,
          e \in ShiftIndices, p \in ShiftIndices : ShiftLeft(sb, s, eb, e, p)

SpecShift == InitShift /\ [][NextShift]_vars

\* The positions start..end are valid and filled, as slice demands.
Sliceable(start, end) ==
    \A j \in Between(start, end) : j \in Indices /\ array[j] # Empty

\* The view a slice call on start..end has returned.
Sliced(op, start, end, r) ==
    /\ view' = [op |-> op, start |-> start, end |-> end, res |-> r.res,
                at |-> r.at, len |-> r.len]
    /\ UNCHANGED <<bufVars, debug, moved, growVars, vecVars, zstVars, arrayVars>>

\* buffer.slice(range).
Slice(sb, s, eb, e) ==
    /\ alive
    /\ Sliceable(clamp_start(sb, s), clamp_end(eb, e, Capacity))
    /\ Sliced("slice", clamp_start(sb, s), clamp_end(eb, e, Capacity),
              slice(array, clamp_start(sb, s), clamp_end(eb, e, Capacity), debug))

\* buffer.mut_slice(range).
MutSlice(sb, s, eb, e) ==
    /\ alive
    /\ Sliceable(clamp_start(sb, s), clamp_end(eb, e, Capacity))
    /\ Sliced("mut_slice", clamp_start(sb, s), clamp_end(eb, e, Capacity),
              mut_slice(array, clamp_start(sb, s), clamp_end(eb, e, Capacity), debug))

NextSlice ==
    \/ \E sb \in BoundKinds, eb \in BoundKinds, s \in ShiftIndices,
          e \in ShiftIndices : Slice(sb, s, eb, e)
    \/ \E sb \in BoundKinds, eb \in BoundKinds, s \in ShiftIndices,
          e \in ShiftIndices : MutSlice(sb, s, eb, e)

SpecSlice == InitShift /\ [][NextSlice]_vars

\* ------------------------------------------------------------ ArrayBuffer
\* An ArrayBuffer<ArrayCols, EitherBuffer<InlineBuffer<T, size>, Big>> built
\* with ArrayBuffer::from: every column is the inline or the heap-allocated
\* variant; Big is HeapBuffer or AllocatorBuffer.
ArrayKinds == {"array_heap", "array_allocator"}
ArrayBig == IF kind = "array_allocator" THEN "allocator" ELSE "heap"
ArrayCapacity == Array_capacity(size, buffers)
ColumnIds == 1..ArrayCols
\* Slot i is empty, or filled, in every column.
ArraySlotEmpty(i) == \A k \in ColumnIds : Either_slot(buffers[k], heap, i) = Empty
ArraySlotFilled(i) == \A k \in ColumnIds : Either_slot(buffers[k], heap, i) # Empty
\* No element is held by the caller.
NoElement == <<>>

InitArray ==
    /\ kind \in ArrayKinds
    /\ size \in 1..MaxSize
    /\ alive = TRUE
    /\ inner = Either_default
    /\ array = Inline_new(0)
    /\ big = Big_default(kind)
    /\ heap = HeapInit
    /\ counter = 0
    /\ ret = NoElement
    /\ last = NoCall
    /\ buffers \in [ColumnIds -> {Either_First(size), Either_Second(ArrayBig)}]
    /\ asked = <<>>
    /\ GrowAtRest /\ ZstAtRest /\ ShiftAtRest /\ VecAtRest

\* The ArrayBuffer after a call that walked the columns and ended in r.
Walked(r) ==
    /\ buffers' = r.buffers
    /\ heap' = r.hp
    /\ asked' = r.asked
    /\ UNCHANGED <<kind, size, alive, inner, array, big>>
    /\ UNCHANGED <<growVars, vecVars, zstVars, shiftVars>>

\* buffer.write_value(i, value), value an array of ArrayCols new elements;
\* the slot is empty.
ArrayWrite(i, value) ==
    /\ alive
    /\ i < ArrayCapacity
    /\ ArraySlotEmpty(i)
    /\ Walked(Array_write_value(buffers, heap, i, value))
    /\ counter' = counter + Len(value)
    /\ last' = Called("write_value", i, value, 0, Ok, "none", "direct")
    /\ ret' = ret

\* let r = buffer.read_value(i); the slot is filled.
ArrayRead(i) ==
    /\ alive
    /\ ret = NoElement
    /\ i < ArrayCapacity
    /\ ArraySlotFilled(i)
    /\ Walked(Array_read_value(buffers, heap, i))
    /\ ret' = Array_read_result(buffers, heap, i)
    /\ last' = Called("read_value", i, ret', 0, Ok, "none", "direct")
    /\ counter' = counter

\* buffer.manually_drop(i); the slot is filled.
ArrayManuallyDrop(i) ==
    /\ alive
    /\ i < ArrayCapacity
    /\ ArraySlotFilled(i)
    /\ Walked(Array_manually_drop(buffers, heap, i))
    /\ counter' = Array_drop_count(buffers, heap, 1, i, counter)
    /\ last' = Called("manually_drop", i, NoElement, 0, Ok, "none", "direct")
    /\ ret' = ret

\* The caller drops the array it got from read_value.
ArrayDropRet ==
    /\ ret # NoElement
    /\ ret' = NoElement
    /\ counter' = counter - Len(ret)
    /\ last' = Called("drop_value", 0, ret, 0, Ok, "none", "direct")
    /\ UNCHANGED <<kind, size, alive, inner, array, big, heap>>
    /\ UNCHANGED <<arrayVars, growVars, vecVars, zstVars, shiftVars>>

\* buffer.try_grow(target), target > capacity(); oks[k] tells whether the
\* allocator serves column k.
ArrayTryGrow(target, oks) ==
    /\ alive
    /\ target > ArrayCapacity
    /\ Walked(Array_try_grow(ArrayBig, size, buffers, heap, target, oks))
    /\ last' = Called("try_grow", 0, NoElement, target,
                      Array_try_grow(ArrayBig, size, buffers, heap, target, oks).res,
                      "none", "direct")
    /\ UNCHANGED <<counter, ret>>

\* buffer.try_shrink(target), target < capacity() and the slots from target
\* on empty.
ArrayTryShrink(target, oks) ==
    /\ alive
    /\ target < ArrayCapacity
    /\ \A i \in 0..MaxTarget : i >= target => ArraySlotEmpty(i)
    /\ Walked(Array_try_shrink(ArrayBig, size, buffers, heap, target, oks))
    /\ last' = Called("try_shrink", 0, NoElement, target,
                      Array_try_shrink(ArrayBig, size, buffers, heap, target, oks).res,
                      "none", "direct")
    /\ UNCHANGED <<counter, ret>>

\* The ArrayBuffer goes out of scope.
ArrayDropBuffer ==
    /\ alive
    /\ alive' = FALSE
    /\ buffers' = Array_drop(ArrayBig, buffers, heap).buffers
    /\ heap' = Array_drop(ArrayBig, buffers, heap).hp
    /\ last' = Called("drop", 0, NoElement, 0, Ok, "none", "direct")
    /\ UNCHANGED <<kind, size, inner, array, big, counter, ret, asked>>
    /\ UNCHANGED <<growVars, vecVars, zstVars, shiftVars>>

NextArray ==
    \/ \E i \in 0..MaxTarget, value \in [ColumnIds -> Values] : ArrayWrite(i, value)
    \/ \E i \in 0..MaxTarget : ArrayRead(i)
    \/ \E i \in 0..MaxTarget : ArrayManuallyDrop(i)
    \/ ArrayDropRet
    \/ \E target \in 0..MaxTarget, oks \in [ColumnIds -> BOOLEAN] :
            ArrayTryGrow(target, oks)
    \/ \E target \in 0..MaxTarget, oks \in [ColumnIds -> BOOLEAN] :
            ArrayTryShrink(target, oks)
    \/ ArrayDropBuffer

SpecArray == InitArray /\ [][NextArray]_vars

\* ------------------------------------------- every resizable buffer
\* A single buffer (HeapBuffer, AllocatorBuffer, SvoBuffer, InlineBuffer) or
\* an ArrayBuffer of columns, each with its own operations.
InitResize == Init \/ InitArray
NextResize ==
    \/ kind \in Kinds /\ Next
    \/ kind \in ArrayKinds /\ NextArray
SpecResize == InitResize /\ [][NextResize]_vars

\* --------------------------------------------------- forwarding wrappers
\* The buffer is owned by a Box<B> or borrowed as &mut B, and every call
\* goes through the wrapper.
Wrappers == {"box", "mut_ref"}

InitIndirect ==
    /\ kind \in Kinds
    /\ size \in 0..MaxSize
    /\ IsHeapKind(kind) => size = 0
    /\ alive = TRUE
    /\ inner = Either_default
    /\ array = Inline_new(size)
    /\ big = Big_default(kind)
    /\ heap = HeapInit
    /\ counter = 0
    /\ ret = None
    /\ last = NoCall
    /\ wrapper \in Wrappers
    /\ min_size = 0
    /\ mock = GrowMock_from
    /\ seen = NotCalled
    /\ InitExt

\* The buffer behind the wrapper after a single-slot call that left r.
SlotCalled(r) ==
    /\ array' = r.array
    /\ heap' = r.hp
    /\ counter' = r.counter
    /\ UNCHANGED <<kind, size, alive, inner, big>>
    /\ UNCHANGED otherVars

\* wrapper.capacity(); the value returned is recorded as the call's target.
IndirectCapacity ==
    /\ alive
    /\ last' = Called("capacity", 0, None, Indirect_capacity(kind, inner, size, big),
                      Ok, "none", wrapper)
    /\ UNCHANGED <<kind, size, alive, inner, array, big, heap, counter, ret>>
    /\ UNCHANGED otherVars

\* wrapper.write_value(i, LifeCounter::new(&counter)); the slot is empty.
IndirectWriteValue(i, v) ==
    /\ alive
    /\ i < Indirect_capacity(kind, inner, size, big)
    /\ Slot(i) = Empty
    /\ SlotCalled(Indirect_write_value(kind, inner, array, big, heap, i, v,
                                       LifeCounter_new(counter)))
    /\ last' = Called("write_value", i, v, 0, Ok, "none", wrapper)
    /\ ret' = ret

\* let r = wrapper.read_value(i); the slot is filled.
IndirectReadValue(i) ==
    /\ alive
    /\ ret = None
    /\ i < Indirect_capacity(kind, inner, size, big)
    /\ Slot(i) # Empty
    /\ SlotCalled(Indirect_read_value(kind, inner, array, big, heap, i, counter))
    /\ ret' = Indirect_read_value(kind, inner, array, big, heap, i, counter).val
    /\ last' = Called("read_value", i, ret', 0, Ok, "none", wrapper)

\* wrapper.manually_drop(i); the slot is filled.
IndirectManuallyDrop(i) ==
    /\ alive
    /\ i < Indirect_capacity(kind, inner, size, big)
    /\ Slot(i) # Empty
    /\ SlotCalled(Indirect_manually_drop(kind, inner, array, big, heap, i, counter))
    /\ last' = Called("manually_drop", i, None, 0, Ok, "none", wrapper)
    /\ ret' = ret

\* The buffer behind the wrapper after a resize call that answered r; ok
\* tells whether the allocator served it.
IndirectResize(op, target, ok, r) ==
    /\ inner' = r.inner
    /\ array' = r.array
    /\ big' = r.big
    /\ heap' = r.hp
    /\ last' = Called(op, 0, ok, target, r.res, r.call, wrapper)
    /\ UNCHANGED <<kind, size, alive, counter, ret>>
    /\ UNCHANGED otherVars

\* wrapper.try_grow(target), within the contract as for the buffer itself.
IndirectTryGrow(target, ok) ==
    /\ alive
    /\ IsInlineKind(kind) \/ target > Indirect_capacity(kind, inner, size, big)
    /\ IndirectResize("try_grow", target, ok,
                      Indirect_try_grow(kind, inner, size, array, big, heap, target, ok))

\* wrapper.try_shrink(target), within the contract as for the buffer itself.
IndirectTryShrink(target, ok) ==
    /\ alive
    /\ IsInlineKind(kind) \/ target < Indirect_capacity(kind, inner, size, big)
    /\ \A i \in Indices : i >= target => Slot(i) = Empty
    /\ IndirectResize("try_shrink", target, ok,
                      Indirect_try_shrink(kind, inner, size, array, big, heap, target, ok))

\* DropRet: the caller drops the element it read.  DropBuffer: the Box, or
\* the owner once the borrow has ended, drops the buffer.
NextIndirect ==
    \/ IndirectCapacity
    \/ \E i \in 0..MaxTarget, v \in Values : IndirectWriteValue(i, v)
    \/ \E i \in 0..MaxTarget : IndirectReadValue(i)
    \/ \E i \in 0..MaxTarget : IndirectManuallyDrop(i)
    \/ DropRet
    \/ \E target \in 0..MaxTarget, ok \in BOOLEAN : IndirectTryGrow(target, ok)
    \/ \E target \in 0..MaxTarget, ok \in BOOLEAN : IndirectTryShrink(target, ok)
    \/ DropBuffer

SpecIndirect == InitIndirect /\ [][NextIndirect]_vars

\* ------------------------------------------------------------------ Vector
\* A Vector<LifeCounter, B> over an InlineBuffer or a HeapBuffer:
\* [len, array, big, hp, counter], the buffer's fields with the allocator and
\* the destructor count.
Vec(n, arr, b, hp, c) == [len |-> n, array |-> arr, big |-> b, hp |-> hp, counter |-> c]
\* What a call left: the vector, how it ended, the value it returned, and
\* the shift it made.
VecResult(v, res, val, mv) == [vec |-> v, res |-> res, val |-> val, moved |-> mv]
\* Err(()) of try_push.
Err == "Err"
\* The vector after a resize of its buffer that answered r.
VecResized(v, r) == [v EXCEPT !.array = r.array, !.big = r.big, !.hp = r.hp]
\* The vector after a single-slot call on its buffer that left r.
VecSlotCalled(v, r) == [v EXCEPT !.array = r.array, !.hp = r.hp, !.counter = r.counter]
\* The value handed to a call is dropped when the call returns early.
VecDropped(v, value) == [v EXCEPT !.counter = drop_in_place(value, v.counter)]

\* The slots of the buffer as one array, and the buffer with such an array.
Buffer_cells(k, v) ==
    IF IsInlineKind(k) THEN v.array
    ELSE IF IsLive(v.hp, v.big.ptr) THEN v.hp.blocks[v.big.ptr].cells
    ELSE EmptyCells(0)
Buffer_with_cells(k, v, cells, c) ==
    IF IsInlineKind(k) THEN [v EXCEPT !.array = cells, !.counter = c]
    ELSE IF IsLive(v.hp, v.big.ptr)
    THEN [v EXCEPT !.hp.blocks[v.big.ptr].cells = cells, !.counter = c]
    ELSE [v EXCEPT !.counter = c]
\* The record of a shift on start..end that ended in st.
Moved(op, start, end, p, st) ==
    [op |-> op, start |-> start, end |-> end, positions |-> p, res |-> st.res,
     read_empty |-> st.read_empty, overwrote |-> st.overwrote]

\* Vector::capacity.
Vector_capacity(k, n, v) == Buffer_capacity(k, Either_default, n, v.big)
\* Vector::next_size.
Vector_next_size(v) == v.len + 1

\* Vector::try_push from `self.buffer.write_value(index, value)` on.
Vector_push_write(k, v, value) ==
    VecResult([VecSlotCalled(v, Buffer_write_value(k, Either_default, v.array, v.big,
                                                   v.hp, v.len, value, v.counter))
                EXCEPT !.len = v.len + 1],
              Ok, v.len, NoShift)
\* `self.buffer.try_grow(self.next_size()).map_err(|_| ())?`, which answered r.
Vector_push_grown(k, v, value, r) ==
    IF r.res # Ok
    THEN VecResult(VecDropped(VecResized(v, r), value), Err, None, NoShift)
    ELSE Vector_push_write(k, VecResized(v, r), value)
\* Variant: the value is written to the slot after the last one.
Vector_try_push_skip(k, n, v, value, ok) ==
    VecResult([VecSlotCalled(v, Buffer_write_value(k, Either_default, v.array, v.big,
                                                   v.hp, v.len + 1, value, v.counter))
                EXCEPT !.len = v.len + 1],
              Ok, v.len, NoShift)
\* Vector::try_push.
Vector_try_push(k, n, v, value, ok) ==
    IF v.len >= Vector_capacity(k, n, v)
    THEN Vector_push_grown(k, v, value,
            Buffer_try_grow(k, Either_default, n, v.array, v.big, v.hp,
                            Vector_next_size(v), ok))
    ELSE Vector_push_write(k, v, value)
\* .expect("Should push while having space").
Vector_expect(r) == IF r.res = Err THEN [r EXCEPT !.res = Panic] ELSE r
\* Vector::push.
Vector_push(k, n, v, value, ok) == Vector_expect(Vector_try_push(k, n, v, value, ok))

\* Vector::pop, after `self.len -= 1`: read_value(self.len) answered r.
Vector_pop_read(v, r) == VecResult(VecSlotCalled(v, r), Ok, r.val, NoShift)
\* Vector::pop.
Vector_pop(k, v) ==
    IF v.len > 0
    THEN Vector_pop_read([v EXCEPT !.len = v.len - 1],
            Buffer_read_value(k, Either_default, v.array, v.big, v.hp, v.len - 1,
                              v.counter))
    ELSE VecResult(v, Ok, None, NoShift)

\* Vector::insert after shift_right(index..self.len, 1) ended in st.
Vector_insert_write(k, v, index, element, st) ==
    IF st.res # Ok
    THEN VecResult(VecDropped(Buffer_with_cells(k, v, st.array, st.counter), element),
                   Panic, None, Moved("shift_right", index, v.len, 1, st))
    ELSE VecResult([Buffer_with_cells(k, v,
                        Inline_write_value(st.array, index, element), st.counter)
                     EXCEPT !.len = v.len + 1],
                   Ok, None, Moved("shift_right", index, v.len, 1, st))
\* Variant: the element at `index` is not moved out of the way.
Vector_insert_shift_after(k, n, v, index, element, dbg) ==
    Vector_insert_write(k, v, index, element,
        shift_right(Buffer_cells(k, v), v.counter, Vector_capacity(k, n, v),
                    index + 1, v.len, 1, dbg))
\* Vector::insert from the unsafe block on.
Vector_insert_shift(k, n, v, index, element, dbg) ==
    Vector_insert_write(k, v, index, element,
        shift_right(Buffer_cells(k, v), v.counter, Vector_capacity(k, n, v),
                    index, v.len, 1, dbg))
\* resize_result.expect("Cannot grow the buffer ..."), resize_result being r.
Vector_insert_grown(k, n, v, index, element, r, dbg) ==
    IF r.res # Ok
    THEN VecResult(VecDropped(VecResized(v, r), element), Panic, None, NoShift)
    ELSE Vector_insert_shift(k, n, VecResized(v, r), index, element, dbg)
\* Vector::insert.
Vector_insert(k, n, v, index, element, ok, dbg) ==
    IF index > v.len
    THEN VecResult(VecDropped(v, element), Panic, None, NoShift)
    ELSE IF v.len >= Vector_capacity(k, n, v)
    THEN Vector_insert_grown(k, n, v, index, element,
            Buffer_try_grow(k, Either_default, n, v.array, v.big, v.hp,
                            Vector_next_size(v), ok), dbg)
    ELSE Vector_insert_shift(k, n, v, index, element, dbg)

\* HeapBuffer::write_value through ptr(index) with the wrapped index: a write
\* outside the allocated block, which nothing checks.
Vector_out_of_block(v) == [v EXCEPT !.hp.ub = TRUE]
\* Vector::remove after shift_left(index..self.len, 1) ended in st; result
\* is the value read from `index`, dropped if the shift unwinds.  Without
\* overflow checks the new position of slot 0 wraps: an InlineBuffer panics
\* on the array index, a HeapBuffer writes out of its block.
Vector_remove_shifted(k, v, index, result, st, dbg) ==
    IF st.res # Ok /\ ~dbg /\ ~IsInlineKind(k)
    THEN VecResult(Vector_out_of_block(Buffer_with_cells(k, v, st.array, st.counter)),
                   Panic, None, Moved("shift_left", index, v.len, 1, st))
    ELSE IF st.res # Ok
    THEN VecResult(VecDropped(Buffer_with_cells(k, v, st.array, st.counter), result),
                   Panic, None, Moved("shift_left", index, v.len, 1, st))
    ELSE VecResult([Buffer_with_cells(k, v, st.array, st.counter)
                     EXCEPT !.len = v.len - 1],
                   Ok, result, Moved("shift_left", index, v.len, 1, st))
\* Variant: the elements after `index` are the ones shifted.
Vector_remove_after(k, n, v, index, result, dbg) ==
    Vector_remove_shifted(k, v, index, result,
        shift_left(Buffer_cells(k, v), v.counter, Vector_capacity(k, n, v),
                   index + 1, v.len, 1, dbg), dbg)
\* Vector::remove after `let result = self.buffer.read_value(index)`.
Vector_remove_read(k, n, v, index, result, dbg) ==
    Vector_remove_shifted(k, v, index, result,
        shift_left(Buffer_cells(k, v), v.counter, Vector_capacity(k, n, v),
                   index, v.len, 1, dbg), dbg)
\* Vector::remove.
Vector_remove(k, n, v, index, dbg) ==
    IF index >= v.len
    THEN VecResult(v, Panic, None, NoShift)
    ELSE Vector_remove_read(k, n,
            VecSlotCalled(v, Buffer_read_value(k, Either_default, v.array, v.big,
                                               v.hp, index, v.counter)),
            index,
            Buffer_read_value(k, Either_default, v.array, v.big, v.hp, index,
                              v.counter).val,
            dbg)

\* Vector::try_reserve_exact.
Vector_try_reserve_exact(k, n, v, additional, ok) ==
    IF v.len + additional > Vector_capacity(k, n, v)
    THEN VecResult(VecResized(v,
                      Buffer_try_grow(k, Either_default, n, v.array, v.big, v.hp,
                                      v.len + additional, ok)),
                   Buffer_try_grow(k, Either_default, n, v.array, v.big, v.hp,
                                   v.len + additional, ok).res,
                   None, NoShift)
    ELSE VecResult(v, Ok, None, NoShift)

\* Variant: the buffer is asked to shrink to max(min_capacity, len).
Vector_shrink_to_target(k, n, v, min_capacity, ok) ==
    IF Max(min_capacity, v.len) < Vector_capacity(k, n, v)
    THEN VecResult(VecResized(v,
                      Buffer_try_shrink(k, Either_default, n, v.array, v.big, v.hp,
                                        Max(min_capacity, v.len), ok)),
                   Ok, None, NoShift)
    ELSE VecResult(v, Ok, None, NoShift)
\* Vector::shrink_to: the Result of try_shrink is discarded.
Vector_shrink_to(k, n, v, min_capacity, ok) ==
    IF Max(min_capacity, v.len) < Vector_capacity(k, n, v)
    THEN VecResult(VecResized(v,
                      Buffer_try_shrink(k, Either_default, n, v.array, v.big, v.hp,
                                        min_capacity, ok)),
                   Ok, None, NoShift)
    ELSE VecResult(v, Ok, None, NoShift)
\* Vector::shrink_to_fit.
Vector_shrink_to_fit(k, n, v, ok) == Vector_shrink_to(k, n, v, v.len, ok)

\* Buffer::manually_drop_range on index..end (already clamped).
RECURSIVE manually_drop_range(_, _, _, _)
\* Variant: the last position of the range is left out.
manually_drop_range_short(k, v, index, end) ==
    IF index >= end - 1 THEN v
    ELSE manually_drop_range(k,
            VecSlotCalled(v, Buffer_manually_drop(k, Either_default, v.array, v.big,
                                                  v.hp, index, v.counter)),
            index + 1, end - 1)
manually_drop_range(k, v, index, end) ==
    IF index >= end THEN v
    ELSE manually_drop_range(k,
            VecSlotCalled(v, Buffer_manually_drop(k, Either_default, v.array, v.big,
                                                  v.hp, index, v.counter)),
            index + 1, end)
\* The fields of the vector dropped after its destructor body: the buffer's
\* destructor answered r.
Vector_fields_dropped(v, r) == [v EXCEPT !.big = r.b, !.hp = r.hp]
\* impl Drop for Vector, then the drop glue of its buffer.
Vector_drop(k, v) ==
    Vector_fields_dropped(manually_drop_range(k, v, 0, v.len),
        Buffer_drop(k, Either_default,
                    manually_drop_range(k, v, 0, v.len).big,
                    manually_drop_range(k, v, 0, v.len).hp))

VecKinds == {"inline", "heap"}
\* The vector of this run.
TheVec == Vec(len, array, big, heap, counter)
VecCapacity == Vector_capacity(kind, size, TheVec)
VecCells == Buffer_cells(kind, TheVec)
\* The elements of the vector in order, as Vector::index sees them.
VecElems == [j \in 1..len |-> IF (j - 1) \in DOMAIN VecCells THEN VecCells[j - 1] ELSE Empty]
\* Exactly the positions below len are filled, and they are valid: what
\* every method of Vector relies on.
VecWellFormed ==
    /\ len <= VecCapacity
    /\ \A j \in DOMAIN VecCells : VecCells[j] # Empty <=> j < len
    /\ ~heap.ub

InitVector ==
    /\ kind \in VecKinds
    /\ size = (IF kind = "inline" THEN LayoutMax ELSE 0)
    /\ alive = TRUE
    /\ inner = Either_default
    /\ array = Inline_new(size)
    /\ big = Big_default(kind)
    /\ heap = HeapInit
    /\ counter = 0
    /\ ret = None
    /\ last = NoCall
    /\ len = 0
    /\ debug \in BOOLEAN
    /\ moved = NoShift
    /\ view = NoView
    /\ GrowAtRest /\ ZstAtRest /\ ArrayAtRest

\* The vector after a call that ended in r; arg is the call's argument.
VecCalled(op, arg, value, r) ==
    /\ len' = r.vec.len
    /\ array' = r.vec.array
    /\ big' = r.vec.big
    /\ heap' = r.vec.hp
    /\ counter' = r.vec.counter
    /\ moved' = r.moved
    /\ last' = Called(op, arg, value, r.val, r.res, "none", "direct")
    /\ UNCHANGED <<kind, size, alive, inner, debug, view>>
    /\ UNCHANGED <<growVars, zstVars, arrayVars>>

\* A method is called on a vector that is alive and well-formed.
VecUsable == alive /\ VecWellFormed

\* vec.try_push(LifeCounter::new(&counter)).
VecTryPush(value, ok) ==
    /\ VecUsable
    /\ VecCalled("try_push", len, value,
                 Vector_try_push(kind, size, Vec(len, array, big, heap,
                                                 LifeCounter_new(counter)), value, ok))
    /\ ret' = ret

\* vec.push(LifeCounter::new(&counter)).
VecPush(value, ok) ==
    /\ VecUsable
    /\ VecCalled("push", len, value,
                 Vector_push(kind, size, Vec(len, array, big, heap,
                                             LifeCounter_new(counter)), value, ok))
    /\ ret' = ret

\* let r = vec.pop(); None leaves nothing in the caller's hands.
VecPop ==
    /\ VecUsable
    /\ ret = None
    /\ VecCalled("pop", len, None, Vector_pop(kind, TheVec))
    /\ ret' = Vector_pop(kind, TheVec).val

\* vec.insert(index, LifeCounter::new(&counter)).
VecInsert(index, element, ok) ==
    /\ VecUsable
    /\ VecCalled("insert", index, element,
                 Vector_insert(kind, size, Vec(len, array, big, heap,
                                               LifeCounter_new(counter)),
                               index, element, ok, debug))
    /\ ret' = ret

\* let r = vec.remove(index).
VecRemove(index) ==
    /\ VecUsable
    /\ ret = None
    /\ VecCalled("remove", index, None, Vector_remove(kind, size, TheVec, index, debug))
    /\ ret' = Vector_remove(kind, size, TheVec, index, debug).val

\* vec.try_reserve_exact(additional).
VecTryReserveExact(additional, ok) ==
    /\ VecUsable
    /\ VecCalled("try_reserve_exact", additional, None,
                 Vector_try_reserve_exact(kind, size, TheVec, additional, ok))
    /\ ret' = ret

\* vec.shrink_to(min_capacity).
VecShrinkTo(min_capacity, ok) ==
    /\ VecUsable
    /\ VecCalled("shrink_to", min_capacity, None,
                 Vector_shrink_to(kind, size, TheVec, min_capacity, ok))
    /\ ret' = ret

\* vec.shrink_to_fit().
VecShrinkToFit(ok) ==
    /\ VecUsable
    /\ VecCalled("shrink_to_fit", len, None,
                 Vector_shrink_to_fit(kind, size, TheVec, ok))
    /\ ret' = ret

\* The caller drops the element it got from pop or remove.
VecDropRet ==
    /\ ret # None
    /\ ret' = None
    /\ counter' = LifeCounter_drop(counter)
    /\ last' = Called("drop_value", 0, ret, 0, Ok, "none", "direct")
    /\ UNCHANGED <<kind, size, alive, inner, array, big, heap, len>>
    /\ UNCHANGED <<shiftVars, growVars, zstVars, arrayVars>>

\* The vector goes out of scope, at the end of its block or while a panic
\* unwinds.
VecDrop ==
    /\ alive
    /\ alive' = FALSE
    /\ array' = Vector_drop(kind, TheVec).array
    /\ big' = Vector_drop(kind, TheVec).big
    /\ heap' = Vector_drop(kind, TheVec).hp
    /\ counter' = Vector_drop(kind, TheVec).counter
    /\ last' = Called("drop", len, None, 0, Ok, "none", "direct")
    /\ UNCHANGED <<kind, size, inner, ret, len>>
    /\ UNCHANGED <<shiftVars, growVars, zstVars, arrayVars>>

NextVector ==
    \/ \E value \in Values, ok \in BOOLEAN : VecTryPush(value, ok)
    \/ \E value \in Values, ok \in BOOLEAN : VecPush(value, ok)
    \/ VecPop
    \/ \E index \in 0..MaxTarget, element \in Values, ok \in BOOLEAN :
            VecInsert(index, element, ok)
    \/ \E index \in 0..MaxTarget : VecRemove(index)
    \/ \E additional \in 0..MaxSize, ok \in BOOLEAN : VecTryReserveExact(additional, ok)
    \/ \E min_capacity \in 0..MaxTarget, ok \in BOOLEAN : VecShrinkTo(min_capacity, ok)
    \/ \E ok \in BOOLEAN : VecShrinkToFit(ok)
    \/ VecDropRet
    \/ VecDrop

SpecVector == InitVector /\ [][NextVector]_vars

\* ------------------------------------------------------------- properties
Targets == 0..MaxTarget
LiveBlocks == {id \in BlockIds : heap.blocks[id].status = "live"}
FreedBlocks == {id \in BlockIds : heap.blocks[id].status = "freed"}
\* A further write_value(i, _) is within the contract.
Writable(i) == alive /\ i \in Indices /\ Slot(i) = Empty

\* C1: write_value(i, v) stores v in slot i and leaves every other slot as it
\* was; read_value(i) returns the content of slot i and leaves it empty, so
\* that it may be written again; and a read_value(i) that immediately follows
\* write_value(i, v) returns v.
C1_RoundTrip ==
    [][/\ \A i \in Targets, v \in Values :
            WriteValue(i, v) =>
                /\ Slot(i)' = v
                /\ \A j \in Indices : j # i => Slot(j)' = Slot(j)
       /\ \A i \in Targets :
            ReadValue(i) =>
                /\ ret' = Slot(i)
                /\ Writable(i)'
                /\ (last.op = "write_value" /\ last.index = i) => ret' = last.value
      ]_vars

\* C1 witness: slot 1 of a promoted SvoBuffer was read back and is empty.
C1_Witness ==
    /\ kind = "svo_heap" /\ inner = "Second"
    /\ last.op = "read_value" /\ last.index = 1
    /\ ret = MaxVal /\ last.value = MaxVal
    /\ Slot(1) = Empty

\* C2: for HeapBuffer, AllocatorBuffer and an SvoBuffer over them, a try_grow
\* that returns Ok leaves capacity() >= target, and capacity() has not
\* decreased.
C2_GrowMonotonic ==
    [][\A target \in Targets, ok \in BOOLEAN :
            (~IsInlineKind(kind) /\ TryGrow(target, ok) /\ last'.res = Ok) =>
                /\ Capacity' >= target
                /\ Capacity' >= Capacity
      ]_vars

\* C2 witness: a second, reallocating growth of a promoted SvoBuffer succeeded.
C2_Witness ==
    /\ kind = "svo_allocator" /\ inner = "Second"
    /\ last.op = "try_grow" /\ last.res = Ok /\ last.call = "realloc"
    /\ last.via = "second"
    /\ Capacity = LayoutMax

\* C3: when an inline SvoBuffer with SMALL_SIZE >= 1 is promoted by a
\* successful try_grow, every inline slot keeps its content: filled slots
\* read back the same value, empty slots stay empty.
C3_PromotionPreserves ==
    [][\A target \in Targets, ok \in BOOLEAN :
            (/\ IsSvoKind(kind) /\ inner = "First" /\ size >= 1
             /\ TryGrow(target, ok) /\ last'.res = Ok) =>
                /\ inner' = "Second"
                /\ \A i \in 0..(size - 1) : Slot(i)' = Slot(i)
      ]_vars

\* C3 witness: a promotion just carried a filled slot 0 and an empty slot 1.
C3_Witness ==
    /\ IsSvoKind(kind) /\ size = 2 /\ inner = "Second"
    /\ last.op = "try_grow" /\ last.via = "move_into_big" /\ last.res = Ok
    /\ Slot(0) = MaxVal /\ Slot(1) = Empty

\* C4: an SvoBuffer starts as First; once Second it stays Second, and every
\* try_grow / try_shrink made while Second is forwarded to the big buffer.
C4_OneWayPromotion ==
    /\ IsSvoKind(kind) => inner = "First"
    /\ [][IsSvoKind(kind) /\ inner = "Second" =>
            /\ inner' = "Second"
            /\ \A target \in Targets, ok \in BOOLEAN :
                (TryGrow(target, ok) \/ TryShrink(target, ok)) =>
                    last'.via = "second"
         ]_vars

\* C4 witness: a promoted SvoBuffer has shrunk to the inline size or below.
C4_Witness ==
    /\ IsSvoKind(kind) /\ inner = "Second"
    /\ last.op = "try_shrink" /\ last.res = Ok /\ last.via = "second"
    /\ Capacity <= size

\* C5: manually_drop on a filled slot runs the element's destructor once
\* (the live-instance counter goes down by one) and empties the slot; when it
\* follows the write of that slot the counter is back at its pre-write value.
C5_ManuallyDropRunsDestructor ==
    [][\A i \in Targets :
            ManuallyDrop(i) =>
                /\ counter' = counter - 1
                /\ Slot(i)' = Empty
                /\ (last.op = "write_value" /\ last.index = i) =>
                        counter' = last.counterBefore
      ]_vars

\* C5 witness: a slot of a heap buffer was dropped while another element
\* was still alive.
C5_Witness ==
    /\ kind = "heap"
    /\ last.op = "manually_drop" /\ Slot(last.index) = Empty
    /\ last.counterBefore = 2 /\ counter = 1

\* C6: a HeapBuffer / AllocatorBuffer never releases a block that is not
\* live, holds no live block besides the one its pointer names, leaves no
\* block live once destroyed, and its destruction at capacity 0 releases
\* nothing.
C6_ReleaseExactlyOnce ==
    /\ [](IsHeapKind(kind) =>
            /\ ~heap.ub
            /\ alive => LiveBlocks \subseteq {big.ptr}
            /\ ~alive => LiveBlocks = {})
    /\ [][(IsHeapKind(kind) /\ DropBuffer /\ Capacity = 0) =>
            (heap' = heap /\ last'.call = "none")]_vars

\* C6 witness: a destroyed buffer whose blocks, one reallocated away and
\* one released by the destructor, are all freed.
C6_Witness ==
    /\ IsHeapKind(kind) /\ ~alive
    /\ last.call = "dealloc"
    /\ Cardinality(FreedBlocks) >= 2

\* C7: an InlineBuffer's capacity() is SIZE in every state; try_grow and
\* try_shrink answer UnsupportedOperation for every target and change
\* neither the capacity nor a slot.
C7_InlineCapacityFixed ==
    [][kind = "inline" =>
            /\ Capacity = size
            /\ Capacity' = size
            /\ \A target \in Targets, ok \in BOOLEAN :
                (TryGrow(target, ok) \/ TryShrink(target, ok)) =>
                    /\ last'.res = UnsupportedOperation
                    /\ array' = array
      ]_vars

\* C7 witness: try_shrink(1) was refused on an inline buffer with a filled slot.
C7_Witness ==
    /\ kind = "inline" /\ size = MaxSize
    /\ last.op = "try_shrink" /\ last.target = 1
    /\ last.res = UnsupportedOperation
    /\ array[0] # Empty

\* C8: try_shrink(0) on a HeapBuffer / AllocatorBuffer with capacity() > 0
\* returns Ok, deallocates the block and leaves the fields as in a fresh
\* buffer (dangling pointer, capacity 0); the try_grow that follows does not
\* reallocate.
C8_ShrinkToZero ==
    [][\A target \in Targets, ok \in BOOLEAN :
        /\ (IsHeapKind(kind) /\ Capacity > 0 /\ TryShrink(0, ok)) =>
                /\ last'.res = Ok
                /\ last'.call = "dealloc"
                /\ big' = [ptr |-> Dangling, cap |-> 0]
                /\ LiveBlocks' = {}
        /\ (/\ IsHeapKind(kind)
            /\ last.op = "try_shrink" /\ last.target = 0
            /\ TryGrow(target, ok)) =>
                /\ last'.call # "realloc"
                /\ last'.res = Ok => (last'.call = "alloc" /\ Capacity' = target)
      ]_vars

\* C8 witness: a buffer shrunk to zero has grown again by a fresh allocation.
C8_Witness ==
    /\ IsHeapKind(kind) /\ alive
    /\ last.op = "try_grow" /\ last.res = Ok /\ last.call = "alloc"
    /\ FreedBlocks # {}

IsPowerOfTwo(x) == \E k \in 0..x : 2 ^ k = x

\* C9: for every target >= 1 the exponential-growth wrapper hands the inner
\* buffer the smallest power of two that is >= target.
C9_NextPowerOfTwo ==
    (wrapper = "exponent_growth" /\ seen.op = "try_grow") =>
        /\ mock.last_target = seen.inner_target
        /\ IsPowerOfTwo(mock.last_target)
        /\ mock.last_target >= seen.target
        /\ \A q \in seen.target..(mock.last_target - 1) : ~IsPowerOfTwo(q)

\* C10: AtLeastBuffer::try_grow hands the inner buffer max(target, MIN_SIZE);
\* try_shrink hands it the target unchanged.
C10_AtLeastClamp ==
    wrapper = "at_least" =>
        /\ seen.op = "try_grow" =>
            /\ mock.last_target = seen.inner_target
            /\ seen.target >= min_size => mock.last_target = seen.target
            /\ seen.target < min_size => mock.last_target = min_size
        /\ seen.op = "try_shrink" => seen.inner_target = seen.target

\* C10 witness: with MIN_SIZE 14 a request for 3 reached the mock as 14.
C10_Witness ==
    /\ wrapper = "at_least" /\ min_size = MaxMinSize
    /\ seen.op = "try_grow" /\ seen.target = 3
    /\ mock.last_target = MaxMinSize

\* C11: a ZstBuffer, and a ZstoBuffer over a zero-sized element type, always
\* reports capacity() = usize::MAX; nothing is ever allocated and the inner
\* buffer is never constructed; try_grow and try_shrink answer
\* UnsupportedOperation whatever the target.
C11_ZstNeverAllocates ==
    SelectA =>
        /\ ZstCapacity = UsizeMax
        /\ heap = HeapInit
        /\ big = Uninit
        /\ last.op \in {"try_grow", "try_shrink"} =>
                last.res = UnsupportedOperation /\ last.call = "none"

\* C11 witness: a ZstoBuffer over a zero-sized type, holding a value at the
\* far end, was asked to grow past what a layout allows.
C11_Witness ==
    /\ kind = "zsto_heap" /\ elem_size = 0
    /\ (UsizeMax - 1) \in filled
    /\ last.op = "try_grow" /\ last.target = UsizeMax
    /\ last.res = UnsupportedOperation

\* C12: destroying an inline, heap or allocator buffer whose slots are still
\* filled runs no element destructor: the live-instance counter keeps the
\* value it had before the destruction.
C12_DropRunsNoDestructor ==
    [][(kind \in {"inline", "heap", "allocator"} /\ DropBuffer) =>
            counter' = counter
      ]_vars

\* C12 witness: a HeapBuffer was destroyed, its block released, while two
\* elements it held (none is held by the caller) are still counted.
C12_Witness ==
    /\ kind = "heap" /\ ~alive
    /\ last.op = "drop" /\ last.call = "dealloc"
    /\ ret = None
    /\ counter = 2 /\ last.counterBefore = 2

ShiftRightPre(s, e, p) ==
    /\ s <= e /\ e + p <= Capacity
    /\ \A j \in Between(s, e) : array[j] # Empty
    /\ \A j \in Between(s + p, e + p) \ Between(s, e) : array[j] = Empty
\* What the step has done if it moved [s, e) by p to the right.
ShiftRightPost(s, e, p) ==
    /\ moved'.res = Ok
    /\ ~moved'.read_empty /\ ~moved'.overwrote
    /\ \A j \in Between(s, e) : array'[j + p] = array[j]
    /\ \A j \in Between(s, e) \cup Between(s + p, e + p) :
            array'[j] # Empty <=> j \in Between(s + p, e + p)
    /\ \A j \in Indices \ (Between(s, e) \cup Between(s + p, e + p)) :
            array'[j] = array[j]
    /\ counter' = counter

ShiftLeftPre(s, e, p) ==
    /\ s <= e /\ e <= Capacity /\ s >= p
    /\ \A j \in Between(s, e) : array[j] # Empty
    /\ \A j \in Between(s - p, e - p) \ Between(s, e) : array[j] = Empty
\* What the step has done if it moved [s, e) by p to the left.
ShiftLeftPost(s, e, p) ==
    /\ moved'.res = Ok
    /\ ~moved'.read_empty /\ ~moved'.overwrote
    /\ \A j \in Between(s, e) : array'[j - p] = array[j]
    /\ \A j \in Between(s, e) \cup Between(s - p, e - p) :
            array'[j] # Empty <=> j \in Between(s - p, e - p)
    /\ \A j \in Indices \ (Between(s, e) \cup Between(s - p, e - p)) :
            array'[j] = array[j]
    /\ counter' = counter

\* C15: shift_left(s..e, p) with the slots [s, e) filled, s >= p and the
\* destination slots outside [s, e) empty moves the value of every slot j of
\* [s, e) to slot j - p; no filled slot is overwritten and no empty slot is
\* read, also when the two ranges overlap; afterwards, of the source and
\* destination slots, exactly [s - p, e - p) are filled, and the other slots
\* and the counter are as before.
C15_ShiftLeft ==
    [][(/\ moved.op = "new" /\ moved'.op = "shift_left"
        /\ ShiftLeftPre(moved'.start, moved'.end, moved'.positions)) =>
            ShiftLeftPost(moved'.start, moved'.end, moved'.positions)
      ]_vars

\* C15 witness: two values were moved one slot to the left, source and
\* destination overlapping in slot 1.
C15_Witness ==
    /\ moved.op = "shift_left" /\ moved.start = 1 /\ moved.end = 3
    /\ moved.positions = 1 /\ moved.res = Ok
    /\ ~moved.read_empty /\ ~moved.overwrote
    /\ array[0] = 1 /\ array[1] = MaxVal /\ array[2] = Empty

\* C16: for every range start..end with start <= end <= capacity(), slice
\* and mut_slice return a view that begins at slot start and has length
\* end - start.
C16_SliceLength ==
    (view.op \in {"slice", "mut_slice"} /\ view.start <= view.end
        /\ view.end <= Capacity) =>
            /\ view.res = Ok
            /\ view.len = view.end - view.start
            /\ view.len > 0 => view.at = view.start

\* ------------------------------------------------------------ ArrayBuffer
\* C17: for an ArrayBuffer, whenever try_grow(target) with target >
\* capacity() returns Ok, capacity() is at least target afterwards, also when
\* columns are fixed-size buffers that answer UnsupportedOperation.
C17_ArrayGrowReachesTarget ==
    (kind \in ArrayKinds /\ last.op = "try_grow" /\ last.res = Ok) =>
        ArrayCapacity >= last.target

\* The slots of column k other than slot i are as before the step.
OtherSlotsKept(k, i) ==
    \A j \in 0..MaxTarget :
        j # i => Either_slot(buffers'[k], heap', j) = Either_slot(buffers[k], heap, j)

\* C18: write_value(i, [a_1, ..., a_N]) stores a_k in slot i of column k for
\* every k; read_value(i) returns the contents of slot i of the columns in
\* column order, which right after that write is exactly [a_1, ..., a_N], and
\* leaves slot i empty in every column; manually_drop(i) empties slot i in
\* every column and runs the destructor of each of its values; the other
\* slots are untouched; capacity() is the minimum of the column capacities.
C18_ArrayBroadcast ==
    [][/\ \A k \in ColumnIds :
            /\ ArrayCapacity' <= Either_capacity(size, buffers'[k])
            /\ last'.op \in {"write_value", "read_value", "manually_drop"} =>
                    OtherSlotsKept(k, last'.index)
            /\ last'.op = "write_value" =>
                    Either_slot(buffers'[k], heap', last'.index) = last'.value[k]
            /\ last'.op = "read_value" =>
                    /\ ret'[k] = Either_slot(buffers[k], heap, last'.index)
                    /\ Either_slot(buffers'[k], heap', last'.index) = Empty
            /\ last'.op = "manually_drop" =>
                    Either_slot(buffers'[k], heap', last'.index) = Empty
       /\ \E k \in ColumnIds : ArrayCapacity' = Either_capacity(size, buffers'[k])
       /\ (last'.op = "read_value" /\ last.op = "write_value"
            /\ last'.index = last.index) => ret' = last.value
       /\ last'.op = "read_value" => Len(ret') = ArrayCols
       /\ last'.op = "manually_drop" => counter' = counter - ArrayCols
      ]_vars

\* C18 witness: [1, MaxVal] was written to and read back from slot 1 of an
\* array buffer whose first column is inline and whose second is allocated.
C18_Witness ==
    /\ kind \in ArrayKinds
    /\ last.op = "read_value" /\ last.index = 1
    /\ ret = <<1, MaxVal>>
    /\ buffers[1].inner = "First" /\ buffers[2].inner = "Second"
    /\ ArraySlotEmpty(1)
    /\ ArrayCapacity = size /\ Either_capacity(size, buffers[2]) > size

\* What a column that does not stop the broadcast answered.
Tolerated == {Ok, UnsupportedOperation, Skipped}
\* Column k of the last resize answered an error that is propagated.
Propagated(log, k) == log[k] \in {OutOfMemory, TheoreticalLimitSurpassed, UndistinguishableError}
\* Column k is, with its slots, as before the step.
ColumnKept(k) ==
    /\ buffers'[k] = buffers[k]
    /\ \A j \in 0..MaxTarget :
            Either_slot(buffers'[k], heap', j) = Either_slot(buffers[k], heap, j)

\* C19: try_grow and try_shrink ask the columns one by one; a column that
\* answers UnsupportedOperation is left as it is and the columns after it are
\* still asked; the first error of another kind is the result of the call,
\* and the columns after it are not asked and stay as they are; when no
\* column answers such an error the call returns Ok.
C19_ArrayResizeBroadcast ==
    [][last'.op \in {"try_grow", "try_shrink"} =>
        /\ Len(asked') = ArrayCols
        /\ \A k \in ColumnIds :
            /\ asked'[k] \in Tolerated \/ asked'[k] = NotAsked \/ Propagated(asked', k)
            /\ asked'[k] = UnsupportedOperation => ColumnKept(k)
            /\ asked'[k] = Skipped =>
                    /\ last'.op = "try_grow"
                    /\ Either_capacity(size, buffers[k]) >= last'.target
                    /\ ColumnKept(k)
            /\ asked'[k] = NotAsked =>
                    /\ ColumnKept(k)
                    /\ \E j \in ColumnIds : j < k /\ Propagated(asked', j)
            /\ Propagated(asked', k) =>
                    /\ last'.res = asked'[k]
                    /\ \A j \in ColumnIds : j > k => asked'[j] = NotAsked
        /\ (\A k \in ColumnIds : asked'[k] \in Tolerated) => last'.res = Ok
      ]_vars

\* C19 witness: the first column, inline, answered UnsupportedOperation; the
\* second was still asked, and its OutOfMemory is the result of try_grow.
C19_Witness ==
    /\ last.op = "try_grow" /\ last.res = OutOfMemory
    /\ asked = <<UnsupportedOperation, OutOfMemory>>
    /\ buffers[1].inner = "First"

\* --------------------------------------------------- forwarding wrappers
\* The buffer after the step: variant, inline array, allocated block, and the
\* allocator's blocks.
BufferAfter == <<inner', array', big', heap'>>
\* The same, had the resize call that answered r been made on the buffer.
BufferResized(r) == <<r.inner, r.array, r.big, r.hp>>
\* The same, had the single-slot call that left r been made on the buffer.
BufferSlotCalled(r) == <<inner, r.array, big, r.hp>>

ResizeFailed(call) ==
    call.op \in {"try_grow", "try_shrink"} /\ call.res # Ok /\ call.res # Panic
\* A single buffer is, after the step, as before: variant, capacity, slots.
BufferKept ==
    /\ inner' = inner
    /\ Capacity' = Capacity
    /\ \A i \in 0..MaxTarget : i < Capacity => Slot(i)' = Slot(i)
\* Slot i of every column holds after the step what it held before.
ArraySlotsKept ==
    \A k \in ColumnIds : \A i \in 0..MaxTarget :
        i < Either_capacity(size, buffers[k]) =>
            Either_slot(buffers'[k], heap', i) = Either_slot(buffers[k], heap, i)

\* C26 as stated: a try_grow or try_shrink that returns an error leaves
\* capacity() and every filled slot as they were, on a HeapBuffer, an
\* AllocatorBuffer, an SvoBuffer and an ArrayBuffer.
C26_FailedResizeNoEffect ==
    [][ResizeFailed(last') =>
        /\ kind \in Kinds => BufferKept
        /\ kind \in ArrayKinds => (ArrayCapacity' = ArrayCapacity /\ ArraySlotsKept)
      ]_vars

\* C26, amended: on a HeapBuffer, an AllocatorBuffer and an SvoBuffer a
\* failed resize leaves capacity() and every slot as they were; on an
\* ArrayBuffer the column that failed and the columns after it are as they
\* were and no slot below the old capacity of its column changes, but the
\* columns resized before the failure keep their new capacity, so capacity()
\* may end above its old value after try_grow and below it (never below the
\* target) after try_shrink.
C26_FailedResizeKeepsSlots ==
    [][ResizeFailed(last') =>
        /\ kind \in Kinds => BufferKept
        /\ kind \in ArrayKinds =>
            /\ \A k \in ColumnIds :
                    asked'[k] \notin {Ok} => ColumnKept(k)
            /\ \A k \in ColumnIds : \A i \in 0..MaxTarget :
                    Either_slot(buffers[k], heap, i) # Empty =>
                        Either_slot(buffers'[k], heap', i) = Either_slot(buffers[k], heap, i)
            /\ last'.op = "try_grow" => ArrayCapacity' >= ArrayCapacity
            /\ last'.op = "try_shrink" =>
                    (ArrayCapacity' <= ArrayCapacity /\ ArrayCapacity' >= last'.target)
      ]_vars

\* C26 witness: try_shrink(1) on an ArrayBuffer of capacity 2 shrank the
\* first column, failed on the second and returned its error: capacity() is
\* now 1 and the element in slot 0 is still there.
C26_Witness ==
    /\ kind \in ArrayKinds
    /\ last.op = "try_shrink" /\ last.target = 1 /\ ResizeFailed(last)
    /\ asked[1] = Ok /\ Propagated(asked, 2)
    /\ Either_capacity(size, buffers[1]) = 1 /\ Either_capacity(size, buffers[2]) = 2
    /\ ArraySlotFilled(0)

\* ------------------------------------------------- promotion of SvoBuffer
\* No block of the allocator is live.
NothingAllocated(hp) == \A id \in BlockIds : ~IsLive(hp, id)

\* C27: when the big buffer's try_grow fails while an inline SvoBuffer is
\* promoted, SvoBuffer::try_grow returns the error a fresh big buffer answers
\* to that try_grow, the buffer stays First with capacity() == SMALL_SIZE and
\* its inline slots as they were, and nothing stays allocated.
C27_FailedPromotion ==
    [][(/\ IsSvoKind(kind) /\ inner = "First"
        /\ last'.op = "try_grow" /\ ResizeFailed(last')) =>
            /\ last'.via = "move_into_big"
            /\ \E ok \in BOOLEAN :
                    last'.res = Big_try_grow(kind, Big_default(kind), heap,
                                             last'.target, ok).res
            /\ inner' = "First"
            /\ Capacity' = size
            /\ array' = array
            /\ big' = Big_default(kind)
            /\ NothingAllocated(heap') /\ ~heap'.ub
      ]_vars

\* C27 witness: an inline SvoBuffer of two slots holding MaxVal in slot 1 was
\* asked to grow, the allocation failed, and it is inline as before.
C27_Witness ==
    /\ IsSvoKind(kind) /\ size = 2 /\ inner = "First"
    /\ last.op = "try_grow" /\ last.via = "move_into_big"
    /\ last.res \in {OutOfMemory, UndistinguishableError}
    /\ array[1] = MaxVal
    /\ NothingAllocated(heap)

\* C30: for every SMALL_SIZE, 0 included, try_grow(target) with target >
\* SMALL_SIZE on an inline SvoBuffer<SMALL_SIZE, HeapBuffer<T>> returns Ok or
\* a ResizeError and does not panic, and after Ok the buffer is promoted
\* with capacity() >= target.
C30_PromotionNeverPanics ==
    (kind = "svo_heap" /\ last.op = "try_grow" /\ last.via = "move_into_big") =>
        /\ last.res # Panic
        /\ last.res = Ok => (inner = "Second" /\ Capacity >= last.target)

\* ------------------------------------------ destructors and ZstBuffer
\* C28: on a ZstBuffer the destructor runs exactly once for each value
\* written: the live-instance counter never goes below its value before
\* the first construction (0), and is back at it whenever no value is in the
\* buffer or in the caller's hands.
C28_ZstDropsOnce ==
    SelectA =>
        /\ counter >= 0
        /\ (filled = {} /\ ret = None) => counter = 0

\* ------------------------------------------ the assertion of shift_left
\* C29: a shift_left(s..e, p) that passes the debug assertion computes no
\* destination below 0: j - p >= 0 for every j in [s, e).
C29_AssertionRejectsUnderflow ==
    (/\ moved.op = "shift_left" /\ debug
     /\ shift_left_assertion(moved.start, moved.end, moved.positions)) =>
        \A j \in Between(moved.start, moved.end) : j - moved.positions >= 0

\* C21: a successful push or try_push returns the previous len, appends the
\* value and makes len one larger; pop on a vector that is not empty returns
\* the last element, the one pushed last of those still held, and makes len
\* one smaller while the others stay; pop on an empty vector returns None
\* and leaves len at 0.
C21_PushPopStep ==
    /\ (last'.op \in {"push", "try_push"} /\ last'.res = Ok)
         => /\ last'.target = len
            /\ len' = len + 1
            /\ VecElems' = Append(VecElems, last'.value)
    /\ (last'.op = "pop" /\ len > 0)
         => /\ ret' = VecElems[len]
            /\ ret' # None
            /\ len' = len - 1
            /\ VecElems' = SubSeq(VecElems, 1, len - 1)
    /\ (last'.op = "pop" /\ len = 0)
         => /\ ret' = None
            /\ len' = 0
C21_PushPopLifo == [][C21_PushPopStep]_vars
\* Two different values were pushed and the later one has been popped.
C21_Witness ==
    /\ last.op = "pop"
    /\ len = 1
    /\ ret # None
    /\ VecElems[1] # ret

\* The elements left once the one at `index` is taken out of elems.
Removed(elems, index) ==
    [j \in 1..(Len(elems) - 1) |-> IF j <= index THEN elems[j] ELSE elems[j + 1]]
\* C22: remove(index) with index < len returns the element that was at
\* `index`, moves every later element one position down, leaves the earlier
\* ones where they were and makes len one smaller; no other element is
\* lost, duplicated or overwritten.
C22_RemoveStep ==
    (last'.op = "remove" /\ last'.index < len)
        => /\ last'.res = Ok
           /\ ret' = VecElems[last'.index + 1]
           /\ len' = len - 1
           /\ VecElems' = Removed(VecElems, last'.index)
           /\ ~moved'.overwrote
           /\ ~moved'.read_empty
C22_RemoveShiftsLeft == [][C22_RemoveStep]_vars

\* The elements once e is put at `index` of elems.
Inserted(elems, index, e) ==
    [j \in 1..(Len(elems) + 1) |->
        IF j <= index THEN elems[j] ELSE IF j = index + 1 THEN e ELSE elems[j - 1]]
\* insert has put last'.value at last'.index: the later elements moved up by
\* one, the earlier ones stayed, len grew by one.
InsertDone ==
    /\ last'.res = Ok
    /\ len' = len + 1
    /\ VecElems' = Inserted(VecElems, last'.index, last'.value)
    /\ counter' = counter + 1
\* insert has panicked and the vector is as it was; the element it was given
\* has been dropped.
InsertRefused ==
    /\ last'.res = Panic
    /\ len' = len
    /\ VecElems' = VecElems
    /\ VecCapacity' = VecCapacity
    /\ counter' = counter
\* C23 as stated: insert(index, element) with index <= len puts the element
\* at `index`, moving the later elements up by one, and with index > len
\* panics without modifying the vector.
C23_InsertStep ==
    last'.op = "insert"
        => IF last'.index <= len THEN InsertDone ELSE InsertRefused
C23_InsertShiftsRight == [][C23_InsertStep]_vars
\* C23 amended: the same, provided the buffer has a free slot or grows; an
\* insert with index <= len on a full buffer that does not grow panics
\* ("Cannot grow the buffer ...") and leaves the vector as it was.
C23_InsertRoomStep ==
    last'.op = "insert"
        => IF last'.index > len THEN InsertRefused
           ELSE IF len < VecCapacity THEN InsertDone
           ELSE InsertDone \/ (InsertRefused /\ last'.index <= len)
C23_InsertShiftsRightWithRoom == [][C23_InsertRoomStep]_vars
\* An element has been inserted between two others.
C23_Witness ==
    /\ last.op = "insert"
    /\ last.res = Ok
    /\ 0 < last.index
    /\ last.index < len - 1
    /\ VecElems[last.index + 1] = last.value

\* C24: shrink_to(min_capacity) leaves the capacity at least as large as
\* the length and as the supplied value, and is a no-op when the capacity
\* was not above that bound; so the capacity of a vector is at least its
\* length in every state.
C24_ShrinkStep ==
    /\ last'.op = "shrink_to"
         => IF VecCapacity > Max(last'.index, len)
            THEN VecCapacity' >= len' /\ VecCapacity' >= last'.index
            ELSE VecCapacity' = VecCapacity
    /\ alive' => VecCapacity' >= len'
C24_CapacityCoversLen == [][C24_ShrinkStep]_vars

\* C25: dropping a vector whose positions below len, and no others, hold
\* elements runs the destructor of each of its len elements
\* once and no other, so the instances left alive are those the caller
\* holds: none, hence a counter of zero, after pushes followed by the drop.
C25_DropStep ==
    (last'.op = "drop" /\ VecWellFormed)
        => /\ counter' = counter - len
           /\ \A j \in DOMAIN VecCells' : VecCells'[j] = Empty
           /\ ~heap'.ub
           /\ ret = None => counter' = 0
C25_DropRunsEachDestructorOnce == [][C25_DropStep]_vars
\* A vector of at least two elements has been dropped and no instance is
\* left alive.
C25_Witness ==
    /\ last.op = "drop"
    /\ last.index >= 2
    /\ ~alive
    /\ counter = 0

====
